---- MODULE Spec2Model ----
(***************************************************************************)
(* md2any: Markdown to themed, inline-styled HTML.  The model covers the   *)
(* styling pipeline of renderers/markdown_renderer.py (string functions    *)
(* are modelled on sequences of one-character strings), the title          *)
(* extraction and the preprocessing of utils/markdown_utils.py, the        *)
(* /render, /themes, /preview, /custom-styles and /wechat handlers of      *)
(* api.py, services/wechat_service.py and services/ai_service.py, the     *)
(* prompt cache of prompts/__init__.py, the image grouping of              *)
(* api_server.py, and requests in flight together on one event loop (there *)
(* pc names the running request, call and response are indexed by request).*)
(***************************************************************************)
EXTENDS Integers, Sequences, FiniteSets, TLC

VARIABLES
    pc,             \* position of the single caller: what was called last
    style_in,       \* argument of the style-string functions
    style_out,      \* their result
    html_in,        \* argument of _process_image_grids (block tokens)
    html_out,       \* its result
    markdown_content, \* argument of extract_title_from_markdown
    title,          \* its result
    md,             \* MarkdownRenderer.md: the converter's accumulated parse state
    call,           \* the last renderer call: arguments, converter state at entry, outcome
    styled,         \* the result of the styling step
    THEMES,         \* api.THEMES
    CUSTOM_STYLES,  \* api.CUSTOM_STYLES
    response,       \* the last HTTP response
    saved,          \* history: per key, what the last save/delete request on it did
    styles_module,  \* what 'from styles import STYLES' did when the process started
    outcome,        \* what the last call of a service or utility function returned or raised
    _PROMPT_CACHE,  \* prompts._PROMPT_CACHE
    prompt_files    \* the .txt files of the prompts directory: name to content

vars == <<pc, style_in, style_out, html_in, html_out, markdown_content, title,
          md, call, styled, THEMES, CUSTOM_STYLES, response, saved, styles_module,
          outcome, _PROMPT_CACHE, prompt_files>>

styleVars == <<style_in, style_out>>

gridVars == <<html_in, html_out>>

titleVars == <<markdown_content, title>>

rendererVars == <<md, call, styled>>

promptVars == <<_PROMPT_CACHE, prompt_files>>

serverVars == <<THEMES, CUSTOM_STYLES, response, saved, styles_module>>

(***************************************************************************)
(* Python str operations, on sequences of one-character strings.           *)
(***************************************************************************)
Whitespace == {" ", "\t", "\n", "\r"}

\* s.startswith(p)
StartsWith(s, p) == Len(s) >= Len(p) /\ SubSeq(s, 1, Len(p)) = p

\* s.endswith(p)
EndsWith(s, p) == Len(s) >= Len(p) /\ SubSeq(s, Len(s) - Len(p) + 1, Len(s)) = p

\* sub in s
Contains(s, sub) == \E i \in 1..(Len(s) - Len(sub) + 1) : SubSeq(s, i, i + Len(sub) - 1) = sub

RECURSIVE Replace(_, _, _)
\* s.replace(old, new): every non-overlapping occurrence, scanning from the left
Replace(s, old, new) ==
    IF Len(s) < Len(old) THEN s
    ELSE IF SubSeq(s, 1, Len(old)) = old
         THEN new \o Replace(SubSeq(s, Len(old) + 1, Len(s)), old, new)
         ELSE <<Head(s)>> \o Replace(Tail(s), old, new)

RECURSIVE Count(_, _)
\* s.count(sub): non-overlapping occurrences
Count(s, sub) ==
    IF Len(s) < Len(sub) THEN 0
    ELSE IF SubSeq(s, 1, Len(sub)) = sub
         THEN 1 + Count(SubSeq(s, Len(sub) + 1, Len(s)), sub)
         ELSE Count(Tail(s), sub)

RECURSIVE Split(_, _)
\* s.split(c) for a one-character separator c
Split(s, c) ==
    IF \A i \in 1..Len(s) : s[i] # c THEN <<s>>
    ELSE LET i == CHOOSE j \in 1..Len(s) : s[j] = c /\ \A k \in 1..(j - 1) : s[k] # c
         IN  <<SubSeq(s, 1, i - 1)>> \o Split(SubSeq(s, i + 1, Len(s)), c)

\* s.strip()
Strip(s) ==
    IF \A i \in 1..Len(s) : s[i] \in Whitespace THEN <<>>
    ELSE LET a == CHOOSE i \in 1..Len(s) : s[i] \notin Whitespace /\ \A k \in 1..(i - 1) : s[k] \in Whitespace
             b == CHOOSE i \in 1..Len(s) : s[i] \notin Whitespace /\ \A k \in (i + 1)..Len(s) : s[k] \in Whitespace
         IN  SubSeq(s, a, b)

RECURSIVE Join(_, _)
\* sep.join(parts)
Join(sep, parts) ==
    IF parts = <<>> THEN <<>>
    ELSE IF Len(parts) = 1 THEN parts[1]
    ELSE parts[1] \o sep \o Join(sep, Tail(parts))

IMPORTANT == <<"!", "i", "m", "p", "o", "r", "t", "a", "n", "t">>

(***************************************************************************)
(* MarkdownRenderer: the style-string adjustments.                         *)
(***************************************************************************)
\* the substitution table, in the insertion order the loop iterates it
dark_adjustments ==
    <<
       <<<<"#", "f", "f", "f", "f", "f", "f">>,
         <<"#", "1", "a", "1", "a", "1", "a">>>>,
       <<<<"#", "f", "f", "f">>,
         <<"#", "1", "a", "1", "a", "1", "a">>>>,
       <<<<"#", "3", "3", "3", "3", "3", "3">>,
         <<"#", "e", "8", "e", "8", "e", "8">>>>,
       <<<<"#", "3", "3", "3">>,
         <<"#", "e", "8", "e", "8", "e", "8">>>>,
       <<<<"#", "5", "5", "5", "5", "5", "5">>,
         <<"#", "b", "0", "b", "0", "b", "0">>>>,
       <<<<"#", "5", "5", "5">>,
         <<"#", "b", "0", "b", "0", "b", "0">>>>,
       <<<<"#", "0", "0", "0", "0", "0", "0">>,
         <<"#", "f", "f", "f", "f", "f", "f">>>>,
       <<<<"#", "0", "0", "0">>,
         <<"#", "f", "f", "f", "f", "f", "f">>>>,
       <<<<"#", "f", "8", "f", "9", "f", "a">>,
         <<"#", "2", "c", "3", "e", "5", "0">>>>,
       <<<<"#", "e", "c", "f", "0", "f", "1">>,
         <<"#", "2", "c", "3", "e", "5", "0">>>>,
       <<<<"#", "f", "7", "f", "7", "f", "7">>,
         <<"#", "2", "c", "3", "e", "5", "0">>>>
    >>

RECURSIVE DarkFrom(_, _)
DarkFrom(style, i) ==
    IF i > Len(dark_adjustments) THEN style
    ELSE DarkFrom(Replace(style, dark_adjustments[i][1], dark_adjustments[i][2]), i + 1)

\* C3 mutant: the two white entries of the table are skipped
_apply_dark_mode_without_white(style) == DarkFrom(style, 3)

_apply_dark_mode_adjustments_to_style(style) == DarkFrom(style, 1)

RECURSIVE AdjustDeclarations(_)
\* the loop over style.split(";"): blank parts and parts without ':' are dropped
AdjustDeclarations(declarations) ==
    IF declarations = <<>> THEN <<>>
    ELSE LET declaration == Strip(Head(declarations))
             rest == AdjustDeclarations(Tail(declarations))
         IN  IF declaration # <<>> /\ Contains(declaration, <<":">>)
             THEN IF ~Contains(declaration, IMPORTANT)
                  THEN <<declaration \o <<" ">> \o IMPORTANT>> \o rest
                  ELSE <<declaration>> \o rest
             ELSE rest

_adjust_for_wechat_style(style) ==
    IF style = <<>> THEN style
    ELSE Join(<<";", " ">>, AdjustDeclarations(Split(style, ";")))

_adjust_for_xiaohongshu_style(style) == style

_adjust_for_zhihu_style(style) == style

(***************************************************************************)
(* Inputs of the style-string functions: up to MaxDecls parts joined by    *)
(* ';', each a declaration with a colour of the table, a colour outside    *)
(* it, an '!important' flag, padding, a quoted '!important', or no ':'.    *)
(***************************************************************************)
MaxDecls == 2

Segments ==
    {
      <<"c", ":", "#", "f", "f", "f", "f", "f", "f">>,
      <<"c", ":", "#", "f", "f", "f">>,
      <<"c", ":", "#", "3", "3", "3", "3", "3", "3">>,
      <<"c", ":", "#", "3", "3", "3">>,
      <<"c", ":", "#", "5", "5", "5", "5", "5", "5">>,
      <<"c", ":", "#", "5", "5", "5">>,
      <<"c", ":", "#", "0", "0", "0", "0", "0", "0">>,
      <<"c", ":", "#", "0", "0", "0">>,
      <<"c", ":", "#", "f", "8", "f", "9", "f", "a">>,
      <<"c", ":", "#", "e", "c", "f", "0", "f", "1">>,
      <<"c", ":", "#", "f", "7", "f", "7", "f", "7">>,
      <<"b", ":", "#", "f", "f", "f", "a", "f", "5">>,
      <<"c", ":", "r", " ", "!", "i", "m", "p", "o", "r", "t", "a", "n", "t">>,
      <<" ", "c", ":", "r", " ">>,
      <<"c", "o", "n", "t", "e", "n", "t", ":", "'", "!", "i", "m", "p", "o", "r", "t", "a", "n", "t", "'">>,
      <<"n", "o", "t", "e">>,
      <<>>
    }

RECURSIVE SeqsUpTo(_, _)
\* all sequences over S of length at most n
SeqsUpTo(S, n) ==
    IF n = 0 THEN {<<>>}
    ELSE LET shorter == SeqsUpTo(S, n - 1)
         IN  shorter \cup {Append(q, x) : q \in shorter, x \in S}

StyleStrings == {Join(<<";">>, parts) : parts \in SeqsUpTo(Segments, MaxDecls)}

(***************************************************************************)
(* Values of the variables a specification does not use.                   *)
(***************************************************************************)
NoCall == [op |-> "none"]

NoResponse == [status |-> 0]

StyleUnused == style_in = <<>> /\ style_out = <<>>

GridUnused == html_in = <<>> /\ html_out = <<>>

TitleUnused == markdown_content = <<>> /\ title = <<>>

NoResult == [raised |-> FALSE]

PromptsUnused == _PROMPT_CACHE = <<>> /\ prompt_files = <<>>

RendererUnused == md = {} /\ call = NoCall /\ styled = NoResult

ServerUnused ==
    /\ THEMES = <<>> /\ CUSTOM_STYLES = <<>> /\ response = NoResponse /\ saved = <<>>
    /\ styles_module = NoResult
    /\ outcome = NoResult

(***************************************************************************)
(* SpecStyle: the two style-string functions applied to one input.         *)
(***************************************************************************)
InitStyle ==
    /\ pc = "start"
    /\ style_in \in StyleStrings
    /\ style_out = <<>>
    /\ GridUnused /\ TitleUnused /\ RendererUnused /\ ServerUnused /\ PromptsUnused

AdjustForWechat ==
    /\ pc = "start"
    /\ style_out' = _adjust_for_wechat_style(style_in)
    /\ pc' = "wechat"
    /\ UNCHANGED <<style_in, gridVars, titleVars, rendererVars, serverVars, outcome, promptVars>>

ApplyDarkMode ==
    /\ pc = "start"
    /\ style_out' = _apply_dark_mode_adjustments_to_style(style_in)
    /\ pc' = "dark"
    /\ UNCHANGED <<style_in, gridVars, titleVars, rendererVars, serverVars, outcome, promptVars>>

NextStyle == AdjustForWechat \/ ApplyDarkMode

SpecStyle == InitStyle /\ [][NextStyle]_vars

(***************************************************************************)
(* Claims about the style-string functions.                                *)
(***************************************************************************)
\* the declarations of a style string: its ';'-separated parts, trimmed, that
\* are not blank and have a ':'
IsDeclaration(part) == Strip(part) # <<>> /\ Contains(part, <<":">>)

Declarations(style) == SelectSeq(Split(style, ";"), IsDeclaration)

\* C2: for any non-empty style string, every declaration of the result of
\* _adjust_for_wechat_style ends with '!important', and the result has as many
\* '!important' as the input has declarations.
C2_EveryDeclarationEndsImportant ==
    (pc = "wechat" /\ style_in # <<>>) =>
        /\ \A i \in 1..Len(Declarations(style_out)) :
              EndsWith(Strip(Declarations(style_out)[i]), IMPORTANT)
        /\ Count(style_out, IMPORTANT) = Len(Declarations(style_in))

HexDigits == {"0", "1", "2", "3", "4", "5", "6", "7", "8", "9",
              "a", "b", "c", "d", "e", "f", "A", "B", "C", "D", "E", "F"}

\* the hex colour that starts at the '#' at position i: '#' and the hex digits after it
HexColorAt(s, i) ==
    LET n == CHOOSE k \in 0..(Len(s) - i) :
                 /\ \A j \in 1..k : s[i + j] \in HexDigits
                 /\ (i + k = Len(s) \/ s[i + k + 1] \notin HexDigits)
    IN  SubSeq(s, i, i + n)

HexColors(s) == {HexColorAt(s, i) : i \in {j \in 1..Len(s) : s[j] = "#"}}

LightColors == {dark_adjustments[i][1] : i \in 1..Len(dark_adjustments)}

WHITE6 == <<"#", "f", "f", "f", "f", "f", "f">>

WHITE3 == <<"#", "f", "f", "f">>

BLACK3 == <<"#", "0", "0", "0">>

\* C3 as stated: for a style string whose hex colours are all light colours of
\* the table, the dark-mode result contains none of the light colour strings
\* that occurred in the input.
C3_NoLightColorOfInputRemains ==
    (pc = "dark" /\ HexColors(style_in) \subseteq LightColors) =>
        \A c \in LightColors : Contains(style_in, c) => ~Contains(style_out, c)

\* C3 as amended: the only light colour strings of the input that the result
\* may contain are '#ffffff' and its prefix '#fff', and only when the input
\* had a black ('#000000' or '#000'), which the table turns into '#ffffff'.
C3_OnlyWhiteFromBlackRemains ==
    (pc = "dark" /\ HexColors(style_in) \subseteq LightColors) =>
        \A c \in LightColors :
            (Contains(style_in, c) /\ Contains(style_out, c)) =>
                /\ c \in {WHITE6, WHITE3}
                /\ Contains(style_in, BLACK3)
                /\ Contains(style_out, WHITE6)

\* C3 witness: an input with a black and a white colour of the table was adjusted.
C3_Witness ==
    /\ pc = "dark"
    /\ HexColors(style_in) \subseteq LightColors
    /\ Contains(style_in, BLACK3) /\ Contains(style_in, WHITE3)
    /\ Contains(style_out, WHITE6)

\* C25: every hex colour of the input that is not a key of the substitution
\* table is a hex colour of the dark-mode result, unchanged.
C25_OtherColorsUnchanged ==
    pc = "dark" =>
        \A c \in HexColors(style_in) \ LightColors : c \in HexColors(style_out)

(***************************************************************************)
(* _process_image_grids.  The HTML string is a sequence of pieces: an      *)
(* image-only paragraph (what '<p><img[^>]*></p>' matches), one whitespace *)
(* character (what '\s' matches) and any other markup.                     *)
(***************************************************************************)
IMG_P == "<p><img></p>"

WS == "\n"

OTHER_BLOCK == "<p>text</p>"

SECTION_END == "</section>"

\* the end of the match of (<p><img[^>]*></p>\s*)+ that starts at the image
\* paragraph at position i: the pattern is greedy
RECURSIVE MatchEnd(_, _)
MatchEnd(html, i) ==
    LET RECURSIVE SkipWs(_)
        SkipWs(j) == IF j < Len(html) /\ html[j + 1] = WS THEN SkipWs(j + 1) ELSE j
        j == SkipWs(i)
    IN  IF j < Len(html) /\ html[j + 1] = IMG_P THEN MatchEnd(html, j + 1) ELSE j

\* len(re.findall(r"<img[^>]*>", img_group))
ImgCount(img_group) == Len(SelectSeq(img_group, LAMBDA t : t = IMG_P))

\* C4 mutant: the three-image case is lost to the default branch
replace_img_group_no3(img_group) ==
    LET img_count == ImgCount(img_group)
    IN  IF img_count = 1 THEN img_group
        ELSE IF img_count = 2
             THEN <<"<section class=\"img-grid img-grid-2\">">> \o img_group \o <<SECTION_END>>
        ELSE <<"<section class=\"img-grid img-grid-multi\">">> \o img_group \o <<SECTION_END>>

replace_img_group(img_group) ==
    LET img_count == ImgCount(img_group)
    IN  IF img_count = 1 THEN img_group
        ELSE IF img_count = 2
             THEN <<"<section class=\"img-grid img-grid-2\">">> \o img_group \o <<SECTION_END>>
        ELSE IF img_count = 3
             THEN <<"<section class=\"img-grid img-grid-3\">">> \o img_group \o <<SECTION_END>>
        ELSE <<"<section class=\"img-grid img-grid-multi\">">> \o img_group \o <<SECTION_END>>

\* re.sub(img_pattern, replace_img_group, html_content): leftmost matches,
\* not overlapping; what is not matched is copied
RECURSIVE SubFrom(_, _)
SubFrom(html, i) ==
    IF i > Len(html) THEN <<>>
    ELSE IF html[i] = IMG_P
         THEN LET e == MatchEnd(html, i)
              IN  replace_img_group(SubSeq(html, i, e)) \o SubFrom(html, e + 1)
         ELSE <<html[i]>> \o SubFrom(html, i + 1)

_process_image_grids(html_content) == SubFrom(html_content, 1)

MaxPieces == 7

HtmlInputs == SeqsUpTo({IMG_P, WS, OTHER_BLOCK}, MaxPieces)

InitGrid ==
    /\ pc = "start"
    /\ html_in \in HtmlInputs
    /\ html_out = <<>>
    /\ StyleUnused /\ TitleUnused /\ RendererUnused /\ ServerUnused /\ PromptsUnused

ProcessImageGrids ==
    /\ pc = "start"
    /\ html_out' = _process_image_grids(html_in)
    /\ pc' = "grids"
    /\ UNCHANGED <<html_in, styleVars, titleVars, rendererVars, serverVars, outcome, promptVars>>

NextGrid == ProcessImageGrids

SpecGrid == InitGrid /\ [][NextGrid]_vars

(***************************************************************************)
(* Claims about _process_image_grids.                                      *)
(***************************************************************************)
GridClass(n) ==
    IF n = 2 THEN "<section class=\"img-grid img-grid-2\">"
    ELSE IF n = 3 THEN "<section class=\"img-grid img-grid-3\">"
    ELSE "<section class=\"img-grid img-grid-multi\">"

IsSectionStart(t) == t \in {GridClass(2), GridClass(3), GridClass(4)}

\* the position in s of its k-th image paragraph
ImgPos(s, k) == CHOOSE p \in 1..Len(s) :
                    s[p] = IMG_P /\ Cardinality({q \in 1..p : s[q] = IMG_P}) = k

\* the length of the maximal run of consecutive image paragraphs (with only
\* whitespace between them) that holds the image paragraph at position p
RunLength(s, p) ==
    Cardinality({q \in 1..Len(s) :
        /\ s[q] = IMG_P
        /\ \A r \in (IF p < q THEN p ELSE q)..(IF p < q THEN q ELSE p) : s[r] \in {IMG_P, WS}})

\* the section start that encloses position p of the output, 0 when none does
EnclosingStart(s, p) ==
    LET opens == {a \in 1..(p - 1) :
                     IsSectionStart(s[a]) /\ \A r \in (a + 1)..(p - 1) : s[r] # SECTION_END}
    IN  IF opens = {} THEN 0 ELSE CHOOSE a \in opens : \A b \in opens : b <= a

SectionEnd(s, a) == CHOOSE e \in (a + 1)..Len(s) :
                        s[e] = SECTION_END /\ \A r \in (a + 1)..(e - 1) : s[r] # SECTION_END

\* C4: the content is kept; sections do not nest; a lone image paragraph is in
\* no section; every image paragraph of a run of n >= 2 is in a section of the
\* run's class that holds exactly the n image paragraphs of the run and
\* nothing but them and whitespace.
C4_RunsWrappedByLength ==
    pc = "grids" =>
        /\ SelectSeq(html_out, LAMBDA t : t \in {IMG_P, WS, OTHER_BLOCK}) = html_in
        /\ \A a \in 1..Len(html_out) :
              IsSectionStart(html_out[a]) =>
                  /\ EnclosingStart(html_out, a) = 0
                  /\ \E e \in (a + 1)..Len(html_out) : html_out[e] = SECTION_END
        /\ \A k \in 1..ImgCount(html_in) :
              LET n == RunLength(html_in, ImgPos(html_in, k))
                  p == ImgPos(html_out, k)
                  a == EnclosingStart(html_out, p)
              IN  IF n = 1 THEN a = 0
                  ELSE /\ a # 0
                       /\ html_out[a] = GridClass(n)
                       /\ LET inside == SubSeq(html_out, a + 1, SectionEnd(html_out, a) - 1)
                          IN  /\ ImgCount(inside) = n
                              /\ \A r \in 1..Len(inside) : inside[r] \in {IMG_P, WS}

\* C4 witness: a lone image, a run of two and a run of at least four met in
\* one document, the runs separated by another block.
C4_Witness ==
    /\ pc = "grids"
    /\ \E k \in 1..ImgCount(html_in) : RunLength(html_in, ImgPos(html_in, k)) >= 4
    /\ \E k \in 1..ImgCount(html_in) : RunLength(html_in, ImgPos(html_in, k)) = 2
    /\ \E a, b \in 1..Len(html_out) :
          /\ html_out[a] = GridClass(2) /\ html_out[b] = GridClass(4)


(***************************************************************************)
(* utils/markdown_utils.py: extract_title_from_markdown.                   *)
(***************************************************************************)
RECURSIVE ReplaceCount(_, _, _, _)
\* s.replace(old, new, count)
ReplaceCount(s, old, new, count) ==
    IF count = 0 \/ Len(s) < Len(old) THEN s
    ELSE IF SubSeq(s, 1, Len(old)) = old
         THEN new \o ReplaceCount(SubSeq(s, Len(old) + 1, Len(s)), old, new, count - 1)
         ELSE <<Head(s)>> \o ReplaceCount(Tail(s), old, new, count)

\* the literal fallback title (four CJK characters), as one value that no
\* line of an input can yield
DEFAULT_TITLE == <<"default-title">>

RECURSIVE FirstTitle(_)
\* the loop over the lines: the first line that starts with '#' and not with '##'
FirstTitle(lines) ==
    IF lines = <<>> THEN DEFAULT_TITLE
    ELSE LET line == Head(lines)
         IN  IF StartsWith(line, <<"#">>) /\ ~StartsWith(line, <<"#", "#">>)
             THEN Strip(ReplaceCount(line, <<"#">>, <<>>, 1))
             ELSE FirstTitle(Tail(lines))

\* C5 mutant: the first line that starts with '#' is taken, '##' lines included
extract_title_from_any_heading(content) ==
    LET lines == Split(content, "\n")
        headings == {i \in 1..Len(lines) : StartsWith(lines[i], <<"#">>)}
    IN  IF headings = {} THEN DEFAULT_TITLE
        ELSE LET first == CHOOSE i \in headings : \A j \in headings : i <= j
             IN  Strip(ReplaceCount(lines[first], <<"#">>, <<>>, 1))

extract_title_from_markdown(content) == FirstTitle(Split(content, "\n"))

MaxLines == 3

Lines ==
    {
      <<"#", " ", "T">>,
      <<"#", " ", " ", "A", " ", "b", " ", " ">>,
      <<"#", "#", " ", "S">>,
      <<"#", "#", "#", " ", "X">>,
      <<"t", "e", "x", "t">>,
      <<>>,
      <<"#">>,
      <<" ", "#", " ", "I">>,
      <<"#", "T", "#">>
    }

MarkdownTexts == {Join(<<"\n">>, ls) : ls \in SeqsUpTo(Lines, MaxLines)}

InitTitle ==
    /\ pc = "start"
    /\ markdown_content \in MarkdownTexts
    /\ title = <<>>
    /\ StyleUnused /\ GridUnused /\ RendererUnused /\ ServerUnused /\ PromptsUnused

ExtractTitle ==
    /\ pc = "start"
    /\ title' = extract_title_from_markdown(markdown_content)
    /\ pc' = "title"
    /\ UNCHANGED <<markdown_content, styleVars, gridVars, rendererVars, serverVars, outcome, promptVars>>

NextTitle == ExtractTitle

SpecTitle == InitTitle /\ [][NextTitle]_vars

(***************************************************************************)
(* Claims about extract_title_from_markdown.                               *)
(***************************************************************************)
\* a top-level heading line: '#' first, and no second '#' right after it
IsTopLevelHeading(line) == Len(line) >= 1 /\ line[1] = "#" /\ (Len(line) = 1 \/ line[2] # "#")

\* C5: the title is the trimmed rest, after its leading '#', of the first
\* top-level heading line; it is the fallback literal when there is no such
\* line; a line that begins with '##' is never the one selected.
C5_TitleIsFirstTopLevelHeading ==
    pc = "title" =>
        LET lines == Split(markdown_content, "\n")
            heads == {i \in 1..Len(lines) : IsTopLevelHeading(lines[i])}
        IN  IF heads = {} THEN title = DEFAULT_TITLE
            ELSE LET first == CHOOSE i \in heads : \A j \in heads : i <= j
                 IN  /\ title = Strip(Tail(lines[first]))
                     /\ ~StartsWith(lines[first], <<"#", "#">>)

\* C5 witness: the title came from a top-level heading that follows a '##' line
\* and is followed by another line.
C5_Witness ==
    /\ pc = "title"
    /\ LET lines == Split(markdown_content, "\n")
       IN  /\ Len(lines) = 3
           /\ StartsWith(lines[1], <<"#", "#">>)
           /\ IsTopLevelHeading(lines[2])
           /\ title = Strip(Tail(lines[2]))
           /\ title # <<>>

(***************************************************************************)
(* The styling step: _apply_theme_styling and _apply_custom_styling.       *)
(*                                                                         *)
(* The converter's HTML is a sequence of pieces (as for the image grids);  *)
(* BeautifulSoup's tree is the sequence of its elements in document order, *)
(* each with its tag, class and style attribute.  soup.select is modelled  *)
(* for type selectors and '*'; a pseudo-element selector raises.           *)
(***************************************************************************)
H1_BLOCK == "<h1>T</h1>"

STYLED_P == "<p style=\"a:b\">text</p>"

\* the same paragraph, its style written with a leading blank
STYLED_P_SPACED == "<p style=\" a:b\">text</p>"

\* the same paragraph, its style closed by a semicolon
STYLED_P_CLOSED == "<p style=\"a:b;\">text</p>"

LINK_P == "<p><a href=\"u\">t</a></p>"

RAW_REF_P == "<p>[t][ref]</p>"

SectionStarts == {"<section class=\"img-grid img-grid-2\">",
                  "<section class=\"img-grid img-grid-3\">",
                  "<section class=\"img-grid img-grid-multi\">"}

Element(tag, class) == [tag |-> tag, class |-> class, has_style |-> FALSE, style |-> <<>>]

\* the elements BeautifulSoup makes of one piece
PieceElements(piece) ==
    IF piece = H1_BLOCK THEN <<Element("h1", "")>>
    ELSE IF piece \in {OTHER_BLOCK, RAW_REF_P} THEN <<Element("p", "")>>
    ELSE IF piece = IMG_P THEN <<Element("p", ""), Element("img", "")>>
    ELSE IF piece = LINK_P THEN <<Element("p", ""), Element("a", "")>>
    ELSE IF piece = STYLED_P
         THEN <<[tag |-> "p", class |-> "", has_style |-> TRUE, style |-> <<"a", ":", "b">>]>>
    ELSE IF piece = STYLED_P_SPACED
         THEN <<[tag |-> "p", class |-> "", has_style |-> TRUE,
                 style |-> <<" ", "a", ":", "b">>]>>
    ELSE IF piece = STYLED_P_CLOSED
         THEN <<[tag |-> "p", class |-> "", has_style |-> TRUE,
                 style |-> <<"a", ":", "b", ";">>]>>
    ELSE IF piece \in SectionStarts
         THEN <<Element("section", IF piece = "<section class=\"img-grid img-grid-2\">"
                                   THEN "img-grid img-grid-2"
                                   ELSE IF piece = "<section class=\"img-grid img-grid-3\">"
                                        THEN "img-grid img-grid-3"
                                        ELSE "img-grid img-grid-multi")>>
    ELSE <<>>

RECURSIVE BeautifulSoup(_)
BeautifulSoup(html) ==
    IF html = <<>> THEN <<>> ELSE PieceElements(Head(html)) \o BeautifulSoup(Tail(html))

\* a declaration that is not a str (a theme is Dict[str, Any])
NOT_A_STR == <<"{dict}">>

\* selectors soupsieve refuses (pseudo-elements)
UnsupportedSelectors == {"li::before", "h1::after"}

ReservedSelectors == {"container", "innerContainer"}

\* whether selector, a type selector or '*', matches the element
SelectorMatches(selector, element) == selector = "*" \/ selector = element.tag

\* the mode and platform adjustments of one declaration
AdjustStyle(style_properties, mode, platform) ==
    LET dark == IF mode = "dark-mode"
                THEN _apply_dark_mode_adjustments_to_style(style_properties)
                ELSE style_properties
    IN  IF platform = "wechat" THEN _adjust_for_wechat_style(dark)
        ELSE IF platform = "xiaohongshu" THEN _adjust_for_xiaohongshu_style(dark)
        ELSE IF platform = "zhihu" THEN _adjust_for_zhihu_style(dark)
        ELSE dark

\* whether adjusting the declaration raises: str methods called on a non-str
AdjustRaises(style_properties, mode, platform) ==
    style_properties = NOT_A_STR /\ (mode = "dark-mode" \/ platform = "wechat")

\* C1 mutant: the new declaration replaces the element's style
MergeStyle_overwrite(element, adjusted_style) ==
    [element EXCEPT !.has_style = TRUE, !.style = Strip(adjusted_style)]

\* C23 mutant: the declaration is appended without the ';' boundary
MergeStyle_no_boundary(element, adjusted_style) ==
    [element EXCEPT !.has_style = TRUE,
                    !.style = Strip((IF element.has_style THEN element.style ELSE <<>>)
                                        \o <<" ">> \o adjusted_style)]

\* element["style"] = f"{existing_style} {adjusted_style}".strip()
MergeStyle(element, adjusted_style) ==
    LET existing == IF element.has_style THEN element.style ELSE <<>>
        existing_style == IF existing # <<>> /\ ~EndsWith(existing, <<";">>)
                          THEN existing \o <<";">> ELSE existing
    IN  [element EXCEPT !.has_style = TRUE,
                        !.style = Strip(existing_style \o <<" ">> \o adjusted_style)]

\* C14 mutant: a selector select() cannot parse is applied to every element
ApplyRule_unguarded(soup, selector, adjusted_style) ==
    [k \in 1..Len(soup) |->
        IF selector \in UnsupportedSelectors \/ SelectorMatches(selector, soup[k])
        THEN MergeStyle(soup[k], adjusted_style)
        ELSE soup[k]]

\* one pass of the loop over the style map: selector i applied to the soup
ApplyRule(soup, selector, adjusted_style) ==
    IF selector \in UnsupportedSelectors THEN soup
    ELSE [k \in 1..Len(soup) |->
             IF SelectorMatches(selector, soup[k]) THEN MergeStyle(soup[k], adjusted_style)
             ELSE soup[k]]

RECURSIVE ApplyRules(_, _, _, _, _)
ApplyRules(soup, styles, i, mode, platform) ==
    IF i > Len(styles) THEN soup
    ELSE IF styles[i][1] \in ReservedSelectors
         THEN ApplyRules(soup, styles, i + 1, mode, platform)
         ELSE ApplyRules(ApplyRule(soup, styles[i][1], AdjustStyle(styles[i][2], mode, platform)),
                         styles, i + 1, mode, platform)

\* styles.get(key, "")
StyleOf(styles, key) ==
    IF \E i \in 1..Len(styles) : styles[i][1] = key
    THEN styles[CHOOSE i \in 1..Len(styles) : styles[i][1] = key][2]
    ELSE <<>>

\* C15 mutant: the container styles are dropped
AdjustContainerStyle_dropped(style, mode, platform) == <<>>

\* the container styles get the dark-mode and the WeChat adjustment only
AdjustContainerStyle(style, mode, platform) ==
    LET dark == IF mode = "dark-mode" THEN _apply_dark_mode_adjustments_to_style(style)
                ELSE style
    IN  IF platform = "wechat" THEN _adjust_for_wechat_style(dark) ELSE dark

StylingRaises(styles, mode, platform) ==
    \/ \E i \in 1..Len(styles) :
          styles[i][1] \notin ReservedSelectors /\ AdjustRaises(styles[i][2], mode, platform)
    \/ AdjustRaises(StyleOf(styles, "container"), mode, platform)
    \/ AdjustRaises(StyleOf(styles, "innerContainer"), mode, platform)

\* the body the two styling methods share: the result is the container
\* section, its optional inner container and the content moved into it
ApplyStyles(html_content, styles, mode, platform) ==
    IF StylingRaises(styles, mode, platform) THEN [raised |-> TRUE]
    ELSE LET soup == ApplyRules(BeautifulSoup(_process_image_grids(html_content)),
                                styles, 1, mode, platform)
             container_style == AdjustContainerStyle(StyleOf(styles, "container"), mode, platform)
             inner_container_style ==
                 AdjustContainerStyle(StyleOf(styles, "innerContainer"), mode, platform)
         IN  [raised |-> FALSE,
              container |-> [tag |-> "section", class |-> "markdown-content",
                             has_style |-> container_style # <<>>, style |-> container_style],
              has_inner |-> inner_container_style # <<>>,
              inner_container |-> [tag |-> "section", class |-> "inner-container",
                                   has_style |-> inner_container_style # <<>>,
                                   style |-> inner_container_style],
              contents |-> soup]

\* theme.get("styles", {})
ThemeStyles(theme) == IF "styles" \in DOMAIN theme THEN theme.styles ELSE <<>>

_apply_theme_styling(html_content, theme, mode, platform) ==
    ApplyStyles(html_content, ThemeStyles(theme), mode, platform)

_apply_custom_styling(html_content, custom_styles, mode, platform) ==
    ApplyStyles(html_content, custom_styles, mode, platform)

(***************************************************************************)
(* SpecStyling: the styling step applied to one converted document.        *)
(***************************************************************************)
MaxElems == 2

MaxRules == 2

RECURSIVE JoinPieces(_)
\* the converter puts a newline between the blocks it emits
JoinPieces(blocks) ==
    IF Len(blocks) <= 1 THEN blocks ELSE <<Head(blocks), WS>> \o JoinPieces(Tail(blocks))

ConvertedDocs == {JoinPieces(b) : b \in SeqsUpTo({H1_BLOCK, IMG_P, STYLED_P}, MaxElems)}

Selectors == {"p", "*", "li::before", "container", "innerContainer"}

RuleDeclarations ==
    {<<"c", ":", "#", "3", "3", "3">>,
     <<"b", ":", "r", ";", " ">>}

\* declarations given to the two container keys: the second has no
\* 'property: value' part
ContainerDeclarations ==
    {<<"c", ":", "#", "3", "3", "3">>,
     <<"n", "o", "t", "e">>}

\* style maps: every key once, in insertion order
StyleMapsOver(decls) ==
    {m \in SeqsUpTo(((Selectors \ ReservedSelectors) \X decls)
                        \cup (ReservedSelectors \X ContainerDeclarations), MaxRules) :
        \A i, j \in 1..Len(m) : i # j => m[i][1] # m[j][1]}

StyleMaps == StyleMapsOver(RuleDeclarations)

Modes == {"light-mode", "dark-mode"}

Platforms == {"wechat", "general"}

InitStyling ==
    /\ pc = "start"
    /\ md = {}
    /\ \E h \in ConvertedDocs, s \in StyleMaps, m \in Modes, p \in Platforms :
          call = [op |-> "styling", html_content |-> h, styles |-> s, mode |-> m, platform |-> p]
    /\ styled = NoResult
    /\ StyleUnused /\ GridUnused /\ TitleUnused /\ ServerUnused /\ PromptsUnused

ApplyThemeStyling ==
    /\ pc = "start"
    /\ styled' = _apply_theme_styling(call.html_content, [name |-> "theme", styles |-> call.styles],
                                      call.mode, call.platform)
    /\ pc' = "styled"
    /\ UNCHANGED <<md, call, styleVars, gridVars, titleVars, serverVars, outcome, promptVars>>

ApplyCustomStyling ==
    /\ pc = "start"
    /\ styled' = _apply_custom_styling(call.html_content, call.styles, call.mode, call.platform)
    /\ pc' = "styled"
    /\ UNCHANGED <<md, call, styleVars, gridVars, titleVars, serverVars, outcome, promptVars>>

NextStyling == ApplyThemeStyling \/ ApplyCustomStyling

SpecStyling == InitStyling /\ [][NextStyling]_vars

(***************************************************************************)
(* Claims about the styling step.                                          *)
(***************************************************************************)
\* every element of the rendered output: the wrapping sections and the content
OutputElements(result) ==
    {result.container} \cup (IF result.has_inner THEN {result.inner_container} ELSE {})
        \cup {result.contents[k] : k \in 1..Len(result.contents)}

\* the rules of the style map that are applied to elements
ElementRules(styles) == {i \in 1..Len(styles) : styles[i][1] \notin ReservedSelectors}

\* whether select(selector) finds the element
Selects(selector, element) ==
    selector \notin UnsupportedSelectors /\ SelectorMatches(selector, element)

\* C1 as stated: in the rendered output, every element that a selector of the
\* style map (other than the reserved two) matches has a style attribute that
\* contains the selector's adjusted declaration.
C1_EveryMatchedElementStyled ==
    (pc = "styled" /\ ~styled.raised) =>
        \A i \in ElementRules(call.styles) : \A e \in OutputElements(styled) :
            Selects(call.styles[i][1], e) =>
                /\ e.has_style
                /\ Contains(e.style, AdjustStyle(call.styles[i][2], call.mode, call.platform))

\* C1 as amended: every element of the converted document (the image-grid
\* sections included, the container sections the styling step creates
\* excluded) that a selector matches has a style attribute that contains the
\* selector's adjusted declaration, trimmed of surrounding whitespace.
C1_EveryMatchedContentElementStyled ==
    (pc = "styled" /\ ~styled.raised) =>
        \A i \in ElementRules(call.styles) : \A k \in 1..Len(styled.contents) :
            Selects(call.styles[i][1], styled.contents[k]) =>
                /\ styled.contents[k].has_style
                /\ Contains(styled.contents[k].style,
                            Strip(AdjustStyle(call.styles[i][2], call.mode, call.platform)))

\* C1 witness: an element matched by two selectors of the style map was styled
\* by both.
C1_Witness ==
    /\ pc = "styled" /\ ~styled.raised
    /\ Len(call.styles) = 2
    /\ call.styles[1][2] # call.styles[2][2]
    /\ \E k \in 1..Len(styled.contents) :
          /\ Selects(call.styles[1][1], styled.contents[k])
          /\ Selects(call.styles[2][1], styled.contents[k])
          /\ Contains(styled.contents[k].style,
                      Strip(AdjustStyle(call.styles[1][2], call.mode, call.platform)))
          /\ Contains(styled.contents[k].style,
                      Strip(AdjustStyle(call.styles[2][2], call.mode, call.platform)))
          /\ Strip(AdjustStyle(call.styles[2][2], call.mode, call.platform)) # <<>>
          /\ Strip(AdjustStyle(call.styles[1][2], call.mode, call.platform)) # <<>>

\* C14: when select() raises for a selector, no element is changed for it, the
\* other selectors are applied and the step returns its wrapped document: the
\* result is the one the style map without the raising selectors gives.
C14_RaisingSelectorSkipped ==
    (pc = "styled" /\ \E i \in 1..Len(call.styles) : call.styles[i][1] \in UnsupportedSelectors)
        => LET Supported(rule) == rule[1] \notin UnsupportedSelectors
           IN  /\ ~styled.raised
               /\ styled.container.tag = "section"
               /\ styled = ApplyStyles(call.html_content, SelectSeq(call.styles, Supported),
                                       call.mode, call.platform)

\* C14 witness: a style map with a raising selector and a selector that
\* matched was applied to a document with a paragraph.
C14_Witness ==
    /\ pc = "styled" /\ ~styled.raised
    /\ Len(call.styles) = 2
    /\ call.styles[1][1] \in UnsupportedSelectors
    /\ call.styles[2][1] = "p"
    /\ \E k \in 1..Len(styled.contents) :
          /\ styled.contents[k].tag = "p"
          /\ styled.contents[k].has_style
          /\ ~Contains(styled.contents[k].style,
                       Strip(AdjustStyle(call.styles[1][2], call.mode, call.platform)))

\* what the styling step returns holds the whole processed document
HoldsAllContent ==
    /\ styled.container.tag = "section" /\ styled.container.class = "markdown-content"
    /\ styled.inner_container.tag = "section"
    /\ styled.inner_container.class = "inner-container"
    /\ Len(styled.contents) = Len(BeautifulSoup(_process_image_grids(call.html_content)))

\* C15 as stated: the step returns one section.markdown-content holding all
\* processed content; the section has a style attribute exactly when the style
\* map has a non-empty 'container' declaration, and the content is nested in a
\* section.inner-container exactly when it has a non-empty 'innerContainer'
\* declaration.
C15_ContainersFollowDeclarations ==
    pc = "styled" =>
        /\ ~styled.raised
        /\ HoldsAllContent
        /\ styled.container.has_style <=> StyleOf(call.styles, "container") # <<>>
        /\ styled.has_inner <=> StyleOf(call.styles, "innerContainer") # <<>>

\* C15 as amended: ... exactly when the 'container' (the 'innerContainer')
\* declaration is non-empty after the dark-mode and WeChat adjustments; the
\* attribute then holds the adjusted declaration.
C15_ContainersFollowAdjustedDeclarations ==
    pc = "styled" =>
        LET Adjusted(key) ==
                LET style == StyleOf(call.styles, key)
                    dark == IF call.mode = "dark-mode"
                            THEN _apply_dark_mode_adjustments_to_style(style) ELSE style
                IN  IF call.platform = "wechat" THEN _adjust_for_wechat_style(dark) ELSE dark
        IN  /\ ~styled.raised
            /\ HoldsAllContent
            /\ styled.container.has_style <=> Adjusted("container") # <<>>
            /\ styled.container.has_style => styled.container.style = Adjusted("container")
            /\ styled.has_inner <=> Adjusted("innerContainer") # <<>>
            /\ styled.has_inner => styled.inner_container.style = Adjusted("innerContainer")

\* C15 witness: a document styled for WeChat with a 'container' declaration
\* that survives the adjustment and an 'innerContainer' declaration that does not.
C15_Witness ==
    /\ pc = "styled" /\ ~styled.raised
    /\ call.platform = "wechat"
    /\ Len(styled.contents) >= 2
    /\ StyleOf(call.styles, "container") # <<>> /\ styled.container.has_style
    /\ StyleOf(call.styles, "innerContainer") # <<>> /\ ~styled.has_inner

(***************************************************************************)
(* MarkdownRenderer.render and render_with_custom_styles on one instance.  *)
(*                                                                         *)
(* A Markdown text is a sequence of blocks.  The converter (self.md) keeps *)
(* the link references a text defines until reset() clears them: md is the *)
(* set of references it holds.  self.md.convert resolves a reference link  *)
(* against them; unresolved, the link stays literal text.                  *)
(***************************************************************************)
MD_H1 == "# T"

MD_IMAGE == "![i](u)"

MD_REF_DEF == "[ref]: u"

MD_REF_LINK == "[t][ref]"

MD_TEXT == "hi"

MdBlocks == {MD_H1, MD_IMAGE, MD_REF_DEF, MD_REF_LINK}

\* preprocess_markdown on a text given by its blocks: the four substitutions
\* start at a list item marker, and none of the blocks above holds one
preprocess_blocks(content) == content

\* the references self.md holds once it has read the text
ConvertRefs(refs, text) ==
    refs \cup (IF \E i \in 1..Len(text) : text[i] = MD_REF_DEF THEN {"ref"} ELSE {})

RECURSIVE ConvertBlocks(_, _)
ConvertBlocks(refs, text) ==
    IF text = <<>> THEN <<>>
    ELSE LET block == Head(text)
             rest == ConvertBlocks(refs, Tail(text))
         IN  IF block = MD_H1 THEN <<H1_BLOCK>> \o rest
             ELSE IF block = MD_IMAGE THEN <<IMG_P>> \o rest
             ELSE IF block = MD_TEXT THEN <<OTHER_BLOCK>> \o rest
             ELSE IF block = MD_REF_LINK
                  THEN <<IF "ref" \in refs THEN LINK_P ELSE RAW_REF_P>> \o rest
             ELSE rest

\* self.md.convert(text) with the converter holding refs: the HTML it returns
Convert(refs, text) == JoinPieces(ConvertBlocks(ConvertRefs(refs, text), text))

\* render: preprocess, convert, style, reset.  The result and the
\* converter's state when the call is over; an exception of the styling step
\* leaves the call before self.md.reset()
render(refs, markdown_text, theme, mode, platform) ==
    LET processed_markdown == preprocess_blocks(markdown_text)
        html_content == Convert(refs, processed_markdown)
        styled_html == _apply_theme_styling(html_content, theme, mode, platform)
    IN  [result |-> styled_html,
         md |-> IF styled_html.raised THEN ConvertRefs(refs, processed_markdown) ELSE {}]

render_with_custom_styles(refs, markdown_text, custom_styles, mode, platform) ==
    LET processed_markdown == preprocess_blocks(markdown_text)
        html_content == Convert(refs, processed_markdown)
        styled_html == _apply_custom_styling(html_content, custom_styles, mode, platform)
    IN  [result |-> styled_html,
         md |-> IF styled_html.raised THEN ConvertRefs(refs, processed_markdown) ELSE {}]

MaxBlocks == 2

MarkdownDocs == SeqsUpTo(MdBlocks, MaxBlocks)

\* themes a caller passes: a style map, the flat record of
\* get_default_themes (no 'styles' key), and one whose declaration is no str
CallerStyleMaps ==
    {<<<<"p", <<"c", ":", "#", "3", "3", "3">>>>>>,
     <<<<"p", NOT_A_STR>>>>}

CallerThemes ==
    {[name |-> "theme", styles |-> s] : s \in CallerStyleMaps}
        \cup {[name |-> "flat", h1 |-> <<"c", ":", "#", "3", "3", "3">>]}

InitRenderer ==
    /\ pc = "idle"
    /\ md = {}
    /\ call = NoCall
    /\ styled = NoResult
    /\ StyleUnused /\ GridUnused /\ TitleUnused /\ ServerUnused /\ PromptsUnused

Render ==
    /\ pc = "idle"
    /\ \E text \in MarkdownDocs, theme \in CallerThemes, mode \in Modes, platform \in Platforms :
          LET r == render(md, text, theme, mode, platform)
          IN  /\ call' = [op |-> "render", markdown_text |-> text, styles |-> ThemeStyles(theme),
                          mode |-> mode, platform |-> platform, md_at_entry |-> md]
              /\ styled' = r.result
              /\ md' = r.md
    /\ pc' = "returned"
    /\ UNCHANGED <<styleVars, gridVars, titleVars, serverVars, outcome, promptVars>>

RenderWithCustomStyles ==
    /\ pc = "idle"
    /\ \E text \in MarkdownDocs, custom_styles \in CallerStyleMaps,
          mode \in Modes, platform \in Platforms :
          LET r == render_with_custom_styles(md, text, custom_styles, mode, platform)
          IN  /\ call' = [op |-> "render_with_custom_styles", markdown_text |-> text,
                          styles |-> custom_styles, mode |-> mode, platform |-> platform,
                          md_at_entry |-> md]
              /\ styled' = r.result
              /\ md' = r.md
    /\ pc' = "returned"
    /\ UNCHANGED <<styleVars, gridVars, titleVars, serverVars, outcome, promptVars>>

\* the caller takes the result (or the exception) and may call again
TakeResult ==
    /\ pc = "returned"
    /\ pc' = "idle"
    /\ call' = NoCall
    /\ styled' = NoResult
    /\ UNCHANGED <<md, styleVars, gridVars, titleVars, serverVars, outcome, promptVars>>

NextRenderer == Render \/ RenderWithCustomStyles \/ TakeResult

SpecRenderer == InitRenderer /\ [][NextRenderer]_vars

(***************************************************************************)
(* Claims about the renderer instance.                                     *)
(***************************************************************************)
\* C6: whenever a call begins the converter is in its reset state, and what
\* the call returns is what the same call returns on a fresh converter.
C6_ConverterResetWhenCallBegins ==
    pc = "returned" =>
        /\ call.md_at_entry = {}
        /\ styled = ApplyStyles(Convert({}, preprocess_blocks(call.markdown_text)),
                                call.styles, call.mode, call.platform)

\* C28: when the styling step of a call raised, the converter has been reset
\* by the time the exception leaves the call.
C28_ResetAlthoughStylingRaised ==
    (pc = "returned" /\ styled.raised) => md = {}

(***************************************************************************)
(* api.py: the theme table, the custom-style store and their handlers.     *)
(*                                                                         *)
(* A dict is a sequence of <<key, value>> pairs in insertion order where   *)
(* the order is read (THEMES, style maps) and a function where it is not   *)
(* (CUSTOM_STYLES).  The style maps of styles.STYLES are abridged to four  *)
(* selectors, and each declaration to two of its properties.               *)
(***************************************************************************)
BothModes == <<[id |-> "light-mode", class |-> "", background |-> "#ffffff"],
               [id |-> "dark-mode", class |-> "dark-mode", background |-> "#1a1a1a"]>>

STYLES ==
    <<
      <<"alibaba",
        [name |-> "alibaba", modes |-> BothModes,
         styles |-> <<
           <<"container", <<"c", "o", "l", "o", "r", ":", " ", "#", "3", "f", "3", "f", "3", "f", " ", "!", "i", "m", "p", "o", "r", "t", "a", "n", "t", ";", " ", "b", "a", "c", "k", "g", "r", "o", "u", "n", "d", "-", "c", "o", "l", "o", "r", ":", " ", "#", "f", "f", "f", "f", "f", "f", ";">>>>,
           <<"h1", <<"f", "o", "n", "t", "-", "s", "i", "z", "e", ":", " ", "2", "8", "p", "x", ";", " ", "c", "o", "l", "o", "r", ":", " ", "#", "1", "1", "1", "1", "1", "1", ";">>>>,
           <<"p", <<"c", "o", "l", "o", "r", ":", " ", "#", "5", "5", "5", "5", "5", "5", ";", " ", "m", "a", "r", "g", "i", "n", ":", " ", "2", "0", "p", "x", " ", "0", ";">>>>,
           <<"li::before", <<"c", "o", "n", "t", "e", "n", "t", ":", " ", "c", "o", "u", "n", "t", "e", "r", "(", "i", "t", "e", "m", ")", ";", " ", "c", "o", "l", "o", "r", ":", " ", "#", "f", "f", "6", "a", "0", "0", ";">>>> >>]>>,
      <<"apple-notes",
        [name |-> "apple-notes", modes |-> BothModes,
         styles |-> <<
           <<"container", <<"c", "o", "l", "o", "r", ":", " ", "#", "3", "3", "3", "3", "3", "3", ";", " ", "b", "a", "c", "k", "g", "r", "o", "u", "n", "d", "-", "c", "o", "l", "o", "r", ":", " ", "#", "f", "5", "f", "5", "f", "7", ";">>>>,
           <<"h1", <<"f", "o", "n", "t", "-", "s", "i", "z", "e", ":", " ", "3", "2", "p", "x", ";", " ", "c", "o", "l", "o", "r", ":", " ", "#", "1", "d", "1", "d", "1", "f", ";">>>>,
           <<"h1::after", <<"c", "o", "n", "t", "e", "n", "t", ":", " ", "'", "'", ";", " ", "h", "e", "i", "g", "h", "t", ":", " ", "3", "p", "x", ";">>>>,
           <<"p", <<"c", "o", "l", "o", "r", ":", " ", "#", "3", "3", "3", "3", "3", "3", ";", " ", "m", "a", "r", "g", "i", "n", ":", " ", "1", "8", "p", "x", " ", "0", ";">>>> >>]>>
    >>

\* the baked-in fallback: one theme, its declarations at the top level
get_default_themes ==
    <<
      <<"wechat-default",
        [name |-> "wechat-default",
         body |-> <<"l", "i", "n", "e", "-", "h", "e", "i", "g", "h", "t", ":", " ", "1", ".", "6", ";", " ", "c", "o", "l", "o", "r", ":", " ", "#", "3", "3", "3", ";">>,
         h1 |-> <<"c", "o", "l", "o", "r", ":", " ", "#", "2", "c", "3", "e", "5", "0", ";", " ", "p", "a", "d", "d", "i", "n", "g", "-", "b", "o", "t", "t", "o", "m", ":", " ", "1", "0", "p", "x", ";">>,
         p |-> <<"m", "a", "r", "g", "i", "n", ":", " ", "1", "e", "m", " ", "0", ";", " ", "t", "e", "x", "t", "-", "a", "l", "i", "g", "n", ":", " ", "j", "u", "s", "t", "i", "f", "y", ";">>]>>
    >>

\* what 'from styles import STYLES' can do: bind the shipped STYLES, or raise
\* (the module is not on the path, or the file does not compile)
ImportOutcomes ==
    {[raised |-> FALSE, STYLES |-> STYLES],
     [raised |-> TRUE, exception |-> "ImportError"],
     [raised |-> TRUE, exception |-> "SyntaxError"]}

\* C11 mutant: a failed import leaves no themes
load_themes_no_fallback(imported) ==
    IF imported.raised THEN <<>> ELSE imported.STYLES

\* api.load_themes: try: from styles import STYLES; return STYLES
\* except Exception: return get_default_themes()
load_themes(imported) ==
    IF imported.raised THEN get_default_themes ELSE imported.STYLES

\* themes.load_themes, the same function in themes.py
themes_load_themes(imported) ==
    IF imported.raised THEN get_default_themes ELSE imported.STYLES

\* key in d, d[key], list(d.keys()) for a dict kept as a sequence of pairs
HasKey(d, key) == \E i \in 1..Len(d) : d[i][1] = key

Get(d, key) == d[CHOOSE i \in 1..Len(d) : d[i][1] = key][2]

Keys(d) == [i \in 1..Len(d) |-> d[i][1]]

\* [mode["id"] for mode in theme_config.get("modes", [])]
AvailableModes(theme_config) ==
    IF "modes" \in DOMAIN theme_config
    THEN {theme_config.modes[i].id : i \in 1..Len(theme_config.modes)}
    ELSE {}

LightModeOnly == <<[id |-> "light-mode", class |-> "", background |-> "#ffffff"]>>

\* C13 mutant: the loop stores each adjusted declaration back into the style
\* map of the theme it was handed, which is the entry of THEMES
themes_after_render_written_back(themes, theme_name, mode, platform) ==
    [i \in 1..Len(themes) |->
        IF themes[i][1] = theme_name /\ "styles" \in DOMAIN themes[i][2]
        THEN <<themes[i][1],
               [themes[i][2] EXCEPT !.styles =
                   [k \in 1..Len(@) |->
                       IF @[k][1] \in ReservedSelectors THEN @[k]
                       ELSE <<@[k][1], AdjustStyle(@[k][2], mode, platform)>>]]>>
        ELSE themes[i]]

\* THEMES after api.MarkdownRenderer.render styled a document with the theme
\* named theme_name: the renderer is handed the entry of THEMES itself, reads
\* theme.get("styles") and styles.items(), binds adjusted_style to new strings
\* and assigns no key of the theme or of its style map
themes_after_render(themes, theme_name, mode, platform) == themes

\* api.MarkdownRenderer.render: the theme is looked up by name, with the
\* 'wechat-default' entry and then the baked-in record as defaults
api_render(themes, refs, markdown_text, theme_name, mode, platform) ==
    LET theme == IF HasKey(themes, theme_name) THEN Get(themes, theme_name)
                 ELSE IF HasKey(themes, "wechat-default") THEN Get(themes, "wechat-default")
                 ELSE Get(get_default_themes, "wechat-default")
        html_content == Convert(refs, markdown_text)
        styled_html == _apply_theme_styling(html_content, theme, mode, platform)
    IN  [result |-> styled_html,
         md |-> IF styled_html.raised THEN ConvertRefs(refs, markdown_text) ELSE {}]

api_render_with_custom_styles(refs, markdown_text, theme_name, mode, platform, custom_styles) ==
    LET html_content == Convert(refs, markdown_text)
        styled_html == _apply_custom_styling(html_content, custom_styles, mode, platform)
    IN  [result |-> styled_html,
         md |-> IF styled_html.raised THEN ConvertRefs(refs, markdown_text) ELSE {}]

\* C9 mutant: the substitute is the last theme, not the first
FallbackThemeLast(themes) == Keys(themes)[Len(themes)]

\* available_themes[0]: the theme substituted for a missing one
FallbackTheme(themes) == Keys(themes)[1]

\* what leaves render_markdown when it rejects a request: it raises its
\* HTTPException(400) inside the try whose 'except Exception' turns every
\* exception into HTTPException(500)
RenderError(request, theme) ==
    [op |-> "render", status |-> 500, success |-> FALSE,
     html |-> NoResult, theme |-> theme, platform |-> request.platform]

\* POST /render: the response, the converter state and the theme mapping it leaves
render_markdown(themes, custom, refs, request) ==
    LET predefined == HasKey(themes, request.theme)
        is_custom == ~predefined /\ request.theme \in DOMAIN custom
        found == predefined \/ is_custom
        theme == IF found THEN request.theme
                 ELSE IF Len(themes) > 0 THEN FallbackTheme(themes) ELSE request.theme
        theme_source == IF is_custom THEN "custom" ELSE "predefined"
    IN  IF ~found /\ Len(themes) = 0
        THEN [response |-> RenderError(request, theme), md |-> refs, themes |-> themes]
        ELSE LET theme_config == IF is_custom
                                 THEN [name |-> theme, styles |-> custom[theme],
                                       modes |-> LightModeOnly]
                                 ELSE Get(themes, theme)
                 available_modes == AvailableModes(theme_config)
             IN  IF available_modes # {} /\ request.mode \notin available_modes
                 THEN [response |-> RenderError(request, theme), md |-> refs, themes |-> themes]
                 ELSE LET r == IF theme_source = "custom"
                               THEN api_render_with_custom_styles(refs, request.markdown_text,
                                        theme, request.mode, request.platform, custom[theme])
                               ELSE api_render(themes, refs, request.markdown_text, theme,
                                               request.mode, request.platform)
                          after == IF theme_source = "custom" THEN themes
                                   ELSE themes_after_render(themes, theme, request.mode,
                                                            request.platform)
                      IN  IF r.result.raised
                          THEN [response |-> [op |-> "render", status |-> 500, success |-> FALSE,
                                              html |-> NoResult, theme |-> theme,
                                              platform |-> request.platform],
                                md |-> r.md, themes |-> after]
                          ELSE [response |-> [op |-> "render", status |-> 200, success |-> TRUE,
                                              html |-> r.result, theme |-> theme,
                                              platform |-> request.platform],
                                md |-> r.md, themes |-> after]

\* POST /custom-styles: CUSTOM_STYLES[request.style_name] = request.styles
save_custom_style(custom, style_name, styles) ==
    [k \in DOMAIN custom \cup {style_name} |-> IF k = style_name THEN styles ELSE custom[k]]

\* GET /custom-styles/{style_name}
get_custom_style(custom, style_name) ==
    IF style_name \notin DOMAIN custom
    THEN [op |-> "get_custom_style", status |-> 404, style_name |-> style_name, styles |-> <<>>]
    ELSE [op |-> "get_custom_style", status |-> 200, style_name |-> style_name,
          styles |-> custom[style_name]]

\* C10 mutant: the delete answers but removes nothing
delete_custom_style_keeps(custom, style_name) ==
    IF style_name \notin DOMAIN custom
    THEN [response |-> [op |-> "delete_custom_style", status |-> 404, style_name |-> style_name],
          custom |-> custom]
    ELSE [response |-> [op |-> "delete_custom_style", status |-> 200, style_name |-> style_name],
          custom |-> custom]

\* DELETE /custom-styles/{style_name}: 404 for a key that is not there, else
\* del CUSTOM_STYLES[style_name]
delete_custom_style(custom, style_name) ==
    IF style_name \notin DOMAIN custom
    THEN [response |-> [op |-> "delete_custom_style", status |-> 404, style_name |-> style_name],
          custom |-> custom]
    ELSE [response |-> [op |-> "delete_custom_style", status |-> 200, style_name |-> style_name],
          custom |-> [k \in DOMAIN custom \ {style_name} |-> custom[k]]]

\* C16 mutant: the modes of a built-in theme are served as they are stored
get_themes_modes_as_stored(themes, custom) ==
    [themes |->
        [i \in 1..Len(themes) |->
            [id |-> themes[i][1], type |-> "predefined",
             modes |-> IF "modes" \in DOMAIN themes[i][2] THEN themes[i][2].modes ELSE <<>>]]
        \o
        [i \in 1..Len(custom) |->
            [id |-> custom[i][1], type |-> "custom", modes |-> LightModeOnly]]]

\* GET /themes: the built-in themes in the order of THEMES, then the custom
\* styles in the order of CUSTOM_STYLES (custom is list(CUSTOM_STYLES.items()))
get_themes(themes, custom) ==
    [themes |->
        [i \in 1..Len(themes) |->
            LET modes == IF "modes" \in DOMAIN themes[i][2] THEN themes[i][2].modes ELSE <<>>
            IN  [id |-> themes[i][1], type |-> "predefined",
                 modes |-> IF modes = <<>> THEN LightModeOnly ELSE modes]]
        \o
        [i \in 1..Len(custom) |->
            [id |-> custom[i][1], type |-> "custom", modes |-> LightModeOnly]]]

\* the sample document of preview_theme, abridged to its heading and a paragraph
sample_markdown == <<MD_H1, MD_TEXT>>

\* GET /preview/{theme_name}: 404 for a name that is not a built-in theme, 400
\* for a mode the theme does not list, else the rendered sample; an exception
\* of the renderer leaves the handler and is answered 500
preview_theme(themes, refs, theme_name, mode, platform) ==
    IF ~HasKey(themes, theme_name)
    THEN [response |-> [op |-> "preview", status |-> 404, html |-> NoResult],
          md |-> refs, themes |-> themes]
    ELSE LET available_modes == AvailableModes(Get(themes, theme_name))
         IN  IF available_modes # {} /\ mode \notin available_modes
             THEN [response |-> [op |-> "preview", status |-> 400, html |-> NoResult],
                   md |-> refs, themes |-> themes]
             ELSE LET r == api_render(themes, refs, sample_markdown, theme_name, mode, platform)
                  IN  [response |-> [op |-> "preview",
                                     status |-> IF r.result.raised THEN 500 ELSE 200,
                                     html |-> r.result],
                       md |-> r.md,
                       themes |-> themes_after_render(themes, theme_name, mode, platform)]

(***************************************************************************)
(* services/wechat_service.py and the WeChat handlers of api.py.           *)
(*                                                                         *)
(* An outbound call ends in a timeout or in an HTTP response; the body of  *)
(* a response either parses as a JSON object (a record) or does not.  The  *)
(* Chinese messages are written in English.                                *)
(***************************************************************************)
Timeout == [kind |-> "timeout", status |-> 0, is_json |-> FALSE, json |-> <<>>]

JsonBodies ==
    {[access_token |-> "tok", expires_in |-> "7200"],
     [errcode |-> 0, errmsg |-> "ok", media_id |-> "m1"],
     [media_id |-> "m1"],
     [errcode |-> 40001, errmsg |-> "invalid credential"],
     [errcode |-> 40164, errmsg |-> "invalid ip"],
     [errcode |-> 45009, errmsg |-> "reach max api daily quota limit"],
     [errcode |-> 45009],
     [message |-> "Bad Gateway"]}

\* a gateway in front of the API answers 502 with a body of its own
HttpOutcomes ==
    {Timeout}
    \cup [kind : {"response"}, status : {200}, is_json : {TRUE}, json : JsonBodies]
    \cup [kind : {"response"}, status : {502}, is_json : {TRUE},
          json : {[message |-> "Bad Gateway"]}]
    \cup [kind : {"response"}, status : {200, 502}, is_json : {FALSE}, json : {<<>>}]

\* error_messages.get(errcode, default_msg)
_get_error_message(errcode, default_msg) ==
    CASE errcode = 40013 -> "invalid AppID, check the AppID of the account"
      [] errcode = 40001 -> "AppSecret error, check the AppSecret of the account"
      [] errcode = 40002 -> "check the account's permissions, the draft box must be enabled"
      [] errcode = 40164 -> "IP address not in the whitelist, add IP 101.246.231.55"
      [] OTHER -> default_msg

\* result.get('errmsg', 'Unknown error')
ErrMsg(result) == IF "errmsg" \in DOMAIN result THEN result.errmsg ELSE "Unknown error"

\* 'errcode' in result and result['errcode'] != 0
HasErrcode(result) == "errcode" \in DOMAIN result /\ result.errcode # 0

\* response = requests.get/post(..., timeout=10); result = response.json():
\* the exception that leaves the two lines, "" if none; the status is not read
HttpRaises(http) ==
    IF http.kind = "timeout" THEN "Timeout"
    ELSE IF ~http.is_json THEN "JSONDecodeError"
    ELSE ""

\* get_access_token: the token, or the exception that leaves the function
get_access_token(http) ==
    IF HttpRaises(http) # "" THEN [raised |-> TRUE, exception |-> HttpRaises(http)]
    ELSE IF HasErrcode(http.json)
    THEN [raised |-> TRUE, exception |-> "WeChatError", error_code |-> http.json.errcode,
          error_msg |-> _get_error_message(http.json.errcode, ErrMsg(http.json)),
          original |-> http.json]
    ELSE IF "access_token" \in DOMAIN http.json
    THEN [raised |-> FALSE, value |-> http.json.access_token]
    ELSE [raised |-> TRUE, exception |-> "KeyError"]

\* raise WeChatError(error_code=500, error_msg=f"...: {str(e)}")
SendFailed(exception) ==
    [raised |-> TRUE, exception |-> "WeChatError", error_code |-> 500,
     error_msg |-> <<"sending to the WeChat draft box failed: ", exception>>, original |-> <<>>]

\* the draft-add exchange shared by the two send functions: requests.post,
\* response.json(), the errcode test and 'return result'
DraftAdd(http) ==
    IF HttpRaises(http) # "" THEN SendFailed(HttpRaises(http))
    ELSE IF HasErrcode(http.json)
    THEN [raised |-> TRUE, exception |-> "WeChatError", error_code |-> http.json.errcode,
          error_msg |-> ErrMsg(http.json), original |-> http.json]
    ELSE [raised |-> FALSE, value |-> http.json]

RECURSIVE TextOf(_)
\* the text of a document given by its blocks, a blank line between blocks
TextOf(blocks) ==
    IF blocks = <<>> THEN <<>>
    ELSE LET block == IF Head(blocks) = MD_H1 THEN <<"#", " ", "T">>
                      ELSE IF Head(blocks) = MD_TEXT THEN <<"h", "i">>
                      ELSE <<"[", "]">>
         IN  IF Len(blocks) = 1 THEN block
             ELSE block \o <<"\n", "\n">> \o TextOf(Tail(blocks))

\* a send that posts the draft before it has a token
send_markdown_to_draft_draft_first(token_http, draft_http, markdown_text, style, themes) ==
    [result |-> DraftAdd(draft_http),
     sent |-> <<[url |-> "cgi-bin/draft/add", access_token |-> "", title |-> <<>>,
                 content |-> <<>>],
                [url |-> "cgi-bin/token"]>>]

\* send_markdown_to_draft with a new renderer: the token exchange, the title,
\* the rendering with the theme named style (plain conversion when themes has
\* no such theme), then the draft-add exchange.  sent lists the outbound
\* requests in the order they were issued.
send_markdown_to_draft(token_http, draft_http, markdown_text, style, themes) ==
    LET token == get_access_token(token_http)
        token_request == [url |-> "cgi-bin/token"]
    IN  IF token.raised
        THEN [result |-> IF token.exception = "WeChatError" THEN token
                         ELSE SendFailed(token.exception),
              sent |-> <<token_request>>]
        ELSE LET extracted == extract_title_from_markdown(TextOf(markdown_text))
                 processed_content == preprocess_blocks(markdown_text)
                 styled_html ==
                     IF HasKey(themes, style)
                     THEN render({}, processed_content, Get(themes, style),
                                 "light-mode", "wechat").result
                     ELSE [raised |-> FALSE, plain |-> Convert({}, processed_content)]
             IN  IF styled_html.raised
                 THEN [result |-> SendFailed("AttributeError"), sent |-> <<token_request>>]
                 ELSE [result |-> DraftAdd(draft_http),
                       sent |-> <<token_request,
                                  [url |-> "cgi-bin/draft/add", access_token |-> token.value,
                                   title |-> extracted, content |-> styled_html]>>]

\* send_content_to_draft: an empty access_token is refused with code 400
\* before anything is sent
send_content_to_draft(draft_http, access_token, title_text, content) ==
    IF access_token = ""
    THEN [result |-> [raised |-> TRUE, exception |-> "WeChatError", error_code |-> 400,
                      error_msg |-> "access_token missing", original |-> <<>>],
          sent |-> <<>>]
    ELSE [result |-> DraftAdd(draft_http),
          sent |-> <<[url |-> "cgi-bin/draft/add", access_token |-> access_token,
                      title |-> title_text, content |-> content]>>]

\* POST /wechat/send_draft of api.py: the same exchange written out in the
\* handler, with HTTPException(400) for a WeChat error code, which 'except
\* HTTPException: raise' lets through, and 500 for every other exception.
\* The document is rendered by the shared renderer with the theme named style.
send_markdown_to_wechat_draft(themes, refs, token_http, draft_http, markdown_text, style) ==
    LET token_request == [url |-> "cgi-bin/token"]
        Failed(status, detail, sent) ==
            [response |-> [op |-> "send_draft", status |-> status, detail |-> detail],
             md |-> refs, themes |-> themes, sent |-> sent]
    IN  IF HttpRaises(token_http) # ""
        THEN Failed(500, HttpRaises(token_http), <<token_request>>)
        ELSE IF HasErrcode(token_http.json)
        THEN Failed(400, [errcode |-> token_http.json.errcode,
                          errmsg |-> _get_error_message(token_http.json.errcode,
                                                        ErrMsg(token_http.json)),
                          original |-> token_http.json], <<token_request>>)
        ELSE IF "access_token" \notin DOMAIN token_http.json
        THEN Failed(500, "KeyError", <<token_request>>)
        ELSE LET extracted == extract_title_from_markdown(TextOf(markdown_text))
                 r == api_render(themes, refs, preprocess_blocks(markdown_text), style,
                                 "light-mode", "wechat")
                 after == themes_after_render(themes, style, "light-mode", "wechat")
                 draft_request == [url |-> "cgi-bin/draft/add",
                                   access_token |-> token_http.json.access_token,
                                   title |-> extracted, content |-> r.result]
                 draft == DraftAdd(draft_http)
             IN  IF r.result.raised
                 THEN [response |-> [op |-> "send_draft", status |-> 500,
                                     detail |-> "AttributeError"],
                       md |-> r.md, themes |-> after, sent |-> <<token_request>>]
                 ELSE [response |->
                          IF ~draft.raised
                          THEN [op |-> "send_draft", status |-> 200, detail |-> draft.value]
                          ELSE IF draft.error_code = 500 /\ draft.original = <<>>
                          THEN [op |-> "send_draft", status |-> 500, detail |-> draft.error_msg]
                          ELSE [op |-> "send_draft", status |-> 400, detail |-> draft.original],
                       md |-> r.md, themes |-> after,
                       sent |-> <<token_request, draft_request>>]

(***************************************************************************)
(* Spec: the server.  One request is handled at a time (the handlers are   *)
(* coroutines that never await).                                           *)
(***************************************************************************)
StyleNames == {"mine", "alibaba", "wechat-default"}

SavedStyleMaps ==
    {<<<<"h1", <<"c", ":", "#", "3", "3", "3">>>>, <<"container", <<"m", ":", "0">>>>>>,
     <<<<"p", <<"b", ":", "r", ";", " ">>>>>>}

RequestThemes == {"alibaba", "apple-notes", "wechat-default", "mine", "nope"}

RequestModes == {"light-mode", "dark-mode", "sepia-mode"}

\* the text "# T\n\nhi"
RequestDocs == {<<MD_H1, MD_TEXT>>}

RenderRequests ==
    [op : {"render"}, markdown_text : RequestDocs, theme : RequestThemes,
     mode : RequestModes, platform : Platforms]

Init ==
    /\ pc = "idle"
    /\ md = {}
    /\ call = NoCall
    /\ styled = NoResult
    /\ styles_module \in ImportOutcomes
    /\ THEMES = load_themes(styles_module)
    /\ CUSTOM_STYLES = <<>>
    /\ response = NoResponse
    /\ saved = [k \in StyleNames |-> [op |-> "none"]]
    /\ outcome = NoResult
    /\ StyleUnused /\ GridUnused /\ TitleUnused /\ PromptsUnused

RenderMarkdown ==
    /\ pc = "idle"
    /\ \E request \in RenderRequests :
          LET r == render_markdown(THEMES, CUSTOM_STYLES, md, request)
          IN  /\ call' = request
              /\ response' = r.response
              /\ md' = r.md
              /\ THEMES' = r.themes
    /\ pc' = "returned"
    /\ UNCHANGED <<styled, styles_module, CUSTOM_STYLES, saved, styleVars, gridVars, titleVars, outcome, promptVars>>

SaveCustomStyle ==
    /\ pc = "idle"
    /\ \E style_name \in StyleNames, styles \in SavedStyleMaps :
          /\ call' = [op |-> "save_custom_style", style_name |-> style_name, styles |-> styles]
          /\ CUSTOM_STYLES' = save_custom_style(CUSTOM_STYLES, style_name, styles)
          /\ response' = [op |-> "save_custom_style", status |-> 200, style_name |-> style_name]
          /\ saved' = [saved EXCEPT ![style_name] = [op |-> "save", styles |-> styles]]
    /\ pc' = "returned"
    /\ UNCHANGED <<md, styled, styles_module, THEMES, styleVars, gridVars, titleVars, outcome, promptVars>>

GetCustomStyle ==
    /\ pc = "idle"
    /\ \E style_name \in StyleNames :
          /\ call' = [op |-> "get_custom_style", style_name |-> style_name]
          /\ response' = get_custom_style(CUSTOM_STYLES, style_name)
    /\ pc' = "returned"
    /\ UNCHANGED <<md, styled, styles_module, THEMES, CUSTOM_STYLES, saved, styleVars, gridVars, titleVars, outcome, promptVars>>

DeleteCustomStyle ==
    /\ pc = "idle"
    /\ \E style_name \in StyleNames :
          LET r == delete_custom_style(CUSTOM_STYLES, style_name)
          IN  /\ call' = [op |-> "delete_custom_style", style_name |-> style_name]
              /\ CUSTOM_STYLES' = r.custom
              /\ response' = r.response
              /\ saved' = [saved EXCEPT ![style_name] = [op |-> "delete"]]
    /\ pc' = "returned"
    /\ UNCHANGED <<md, styled, styles_module, THEMES, styleVars, gridVars, titleVars, outcome, promptVars>>

\* list(CUSTOM_STYLES.items()): the dict keeps the order in which its keys
\* were first saved, which CUSTOM_STYLES as a function does not record
Items(d) ==
    {[i \in 1..Cardinality(DOMAIN d) |-> <<order[i], d[order[i]]>>] :
        order \in {o \in [1..Cardinality(DOMAIN d) -> DOMAIN d] :
                      \A i, j \in 1..Cardinality(DOMAIN d) : i # j => o[i] # o[j]}}

GetThemes ==
    /\ pc = "idle"
    /\ \E custom \in Items(CUSTOM_STYLES) :
          response' = [op |-> "get_themes", status |-> 200,
                       themes |-> get_themes(THEMES, custom).themes]
    /\ call' = [op |-> "get_themes"]
    /\ pc' = "returned"
    /\ UNCHANGED <<md, styled, styles_module, THEMES, CUSTOM_STYLES, saved, styleVars, gridVars, titleVars, outcome, promptVars>>

PreviewTheme ==
    /\ pc = "idle"
    /\ \E theme_name \in RequestThemes, mode \in RequestModes, platform \in Platforms :
          LET r == preview_theme(THEMES, md, theme_name, mode, platform)
          IN  /\ call' = [op |-> "preview", theme |-> theme_name, mode |-> mode,
                          platform |-> platform]
              /\ response' = r.response
              /\ md' = r.md
              /\ THEMES' = r.themes
    /\ pc' = "returned"
    /\ UNCHANGED <<styled, styles_module, CUSTOM_STYLES, saved, styleVars, gridVars, titleVars, outcome, promptVars>>

SendMarkdownToWechatDraft ==
    /\ pc = "idle"
    /\ \E token_http \in HttpOutcomes, draft_http \in HttpOutcomes,
          style \in {"alibaba", "nope"} :
          LET r == send_markdown_to_wechat_draft(THEMES, md, token_http, draft_http,
                                                 <<MD_H1, MD_TEXT>>, style)
          IN  /\ call' = [op |-> "send_draft", style |-> style, sent |-> r.sent]
              /\ response' = r.response
              /\ md' = r.md
              /\ THEMES' = r.themes
    /\ pc' = "returned"
    /\ UNCHANGED <<styled, styles_module, CUSTOM_STYLES, saved, styleVars, gridVars, titleVars, outcome, promptVars>>

\* the client has its response; the next request may come
TakeResponse ==
    /\ pc = "returned"
    /\ pc' = "idle"
    /\ call' = NoCall
    /\ response' = NoResponse
    /\ UNCHANGED <<md, styled, styles_module, THEMES, CUSTOM_STYLES, saved, styleVars, gridVars, titleVars, outcome, promptVars>>

Next ==
    \/ RenderMarkdown
    \/ SaveCustomStyle
    \/ GetCustomStyle
    \/ DeleteCustomStyle
    \/ GetThemes
    \/ PreviewTheme
    \/ SendMarkdownToWechatDraft
    \/ TakeResponse

Spec == Init /\ [][Next]_vars


(***************************************************************************)
(* Claims about the server.                                                *)
(***************************************************************************)
Rendered == pc = "returned" /\ response.op = "render"

\* the h1 rule of the theme named name, as a one-element set; empty when no
\* theme of that name exists or it has no h1 rule
H1RuleOfThemeNamed(name) ==
    IF HasKey(THEMES, name)
    THEN LET cfg == Get(THEMES, name)
         IN  IF "styles" \in DOMAIN cfg
             THEN (IF HasKey(cfg.styles, "h1") THEN {Get(cfg.styles, "h1")} ELSE {})
             ELSE (IF "h1" \in DOMAIN cfg THEN {cfg.h1} ELSE {})
    ELSE IF name \in DOMAIN CUSTOM_STYLES /\ HasKey(CUSTOM_STYLES[name], "h1")
         THEN {Get(CUSTOM_STYLES[name], "h1")}
         ELSE {}

\* C7: POST /render with theme 'wechat-default', mode 'light-mode' and
\* platform 'wechat' answers 200 with success and a <section>-wrapped
\* document whose h1 has the h1 rule of the theme named 'wechat-default',
\* '!important' appended to each declaration.
C7_WechatDefaultH1RuleApplied ==
    (Rendered /\ call.theme = "wechat-default" /\ call.mode = "light-mode"
              /\ call.platform = "wechat") =>
        /\ response.status = 200
        /\ response.success
        /\ response.html.container.tag = "section"
        /\ \E rule \in H1RuleOfThemeNamed("wechat-default") :
              \A k \in 1..Len(response.html.contents) :
                  response.html.contents[k].tag = "h1" =>
                      /\ response.html.contents[k].has_style
                      /\ response.html.contents[k].style = _adjust_for_wechat_style(rule)

\* the theme the handler settles on: the requested one if it is a built-in
\* theme or a custom style, else the first built-in theme
SelectedModes(request) ==
    IF HasKey(THEMES, request.theme) THEN AvailableModes(Get(THEMES, request.theme))
    ELSE IF request.theme \in DOMAIN CUSTOM_STYLES THEN {"light-mode"}
    ELSE AvailableModes(THEMES[1][2])

\* C8: a render request whose mode is not among the modes the selected theme
\* lists is answered with HTTP 400.
C8_BadModeAnswered400 ==
    (Rendered /\ SelectedModes(call) # {} /\ call.mode \notin SelectedModes(call))
        => response.status = 400

UnknownTheme(request) ==
    /\ ~HasKey(THEMES, request.theme)
    /\ request.theme \notin DOMAIN CUSTOM_STYLES
    /\ Len(THEMES) > 0

RenderedWithFirstTheme ==
    /\ response.status = 200
    /\ response.theme = THEMES[1][1]
    /\ response.html = ApplyStyles(Convert({}, call.markdown_text), ThemeStyles(THEMES[1][2]),
                                   call.mode, call.platform)

\* C9 as stated: a render request for a theme that is neither built-in nor
\* custom is rendered with the first built-in theme, and the response
\* reports that theme's id.
C9_MissingThemeRenderedWithFirst ==
    (Rendered /\ UnknownTheme(call)) => RenderedWithFirstTheme

\* C9 as amended: ... provided the requested mode is one of the substituted
\* theme's modes, or that theme lists no modes.
C9_MissingThemeRenderedWithFirstIfModeFits ==
    (Rendered /\ UnknownTheme(call)
              /\ (AvailableModes(THEMES[1][2]) = {} \/ call.mode \in AvailableModes(THEMES[1][2])))
        => RenderedWithFirstTheme

\* C9 witness: a request for a missing theme was rendered with 'alibaba', the
\* first of two built-in themes.
C9_Witness ==
    /\ Rendered /\ UnknownTheme(call)
    /\ Len(THEMES) = 2
    /\ call.theme = "nope"
    /\ response.status = 200 /\ response.theme = "alibaba"

\* C10: GET /custom-styles/{k} returns the style map of the last save of k if
\* no delete of k followed it and 404 otherwise; the store holds exactly the
\* keys whose last request was a save, each with the map of that save.
C10_StoreIsLastSaves ==
    /\ \A k \in StyleNames :
          IF saved[k].op = "save"
          THEN k \in DOMAIN CUSTOM_STYLES /\ CUSTOM_STYLES[k] = saved[k].styles
          ELSE k \notin DOMAIN CUSTOM_STYLES
    /\ (pc = "returned" /\ response.op = "get_custom_style") =>
          IF saved[response.style_name].op = "save"
          THEN response.status = 200 /\ response.styles = saved[response.style_name].styles
          ELSE response.status = 404

\* C10 witness: a GET of a saved key answered 200 while another key had been
\* deleted and a third saved with another map.
C10_Witness ==
    /\ pc = "returned" /\ response.op = "get_custom_style" /\ response.status = 200
    /\ \E k \in StyleNames : saved[k].op = "delete"
    /\ \E k \in StyleNames \ {response.style_name} :
          saved[k].op = "save" /\ saved[k].styles # response.styles

C12_EveryThemeHasNameModesStyles ==
    \A i \in 1..Len(THEMES) : {"name", "modes", "styles"} \subseteq DOMAIN THEMES[i][2]

\* C13: no request changes THEMES.
C13_ThemesNeverChange == [][THEMES' = THEMES]_vars

\* C13 witness: a render that substituted the first theme for a missing one,
\* in dark mode for WeChat, was answered with THEMES as loaded.
C13_Witness ==
    /\ Rendered /\ UnknownTheme(call) /\ response.status = 200
    /\ call.mode = "dark-mode" /\ call.platform = "wechat"
    /\ THEMES = STYLES

\* C16: every theme of the GET /themes listing has a non-empty modes list; a
\* built-in theme without modes and every custom style are listed with the
\* single mode 'light-mode'.
C16_ListedThemesHaveModes ==
    (pc = "returned" /\ response.op = "get_themes") =>
        /\ Len(response.themes) = Len(THEMES) + Cardinality(DOMAIN CUSTOM_STYLES)
        /\ \A i \in 1..Len(response.themes) :
              LET listed == response.themes[i]
              IN  /\ Len(listed.modes) > 0
                  /\ listed.type = "custom" =>
                        Len(listed.modes) = 1 /\ listed.modes[1].id = "light-mode"
                  /\ (listed.type = "predefined"
                        /\ AvailableModes(Get(THEMES, listed.id)) = {}) =>
                        Len(listed.modes) = 1 /\ listed.modes[1].id = "light-mode"

\* C16 witness: the listing of the baked-in theme, which defines no modes,
\* together with a custom style.
C16_Witness ==
    /\ pc = "returned" /\ response.op = "get_themes"
    /\ \E i \in 1..Len(response.themes) :
          /\ response.themes[i].type = "predefined"
          /\ "modes" \notin DOMAIN Get(THEMES, response.themes[i].id)
          /\ response.themes[i].modes[1].id = "light-mode"
    /\ \E i \in 1..Len(response.themes) : response.themes[i].type = "custom"

\* the mode ids GET /themes serves, in the current state, for the entries
\* with the given id (the order of the custom entries does not matter here)
ServedModes(theme_id) ==
    LET listing == get_themes(THEMES, CHOOSE custom \in Items(CUSTOM_STYLES) : TRUE).themes
    IN  UNION {{listing[i].modes[j].id : j \in 1..Len(listing[i].modes)} :
                  i \in {n \in 1..Len(listing) : listing[n].id = theme_id}}

\* C26: a render request that names a listed theme, built-in or custom, with
\* a mode id that GET /themes does not serve for it is rejected.
C26_UnlistedModeRejected ==
    (Rendered /\ ServedModes(call.theme) # {} /\ call.mode \notin ServedModes(call.theme))
        => response.status # 200

\* C27: while a custom style is stored under a key (saved and not deleted
\* since), a render request with that key as theme and mode 'light-mode' is
\* rendered with the stored style map, whatever the key.
C27_SavedStyleIsRendered ==
    (Rendered /\ call.theme \in DOMAIN CUSTOM_STYLES /\ call.mode = "light-mode") =>
        /\ response.status = 200
        /\ response.html = ApplyStyles(Convert({}, call.markdown_text),
                                       CUSTOM_STYLES[call.theme], call.mode, call.platform)

\* C29: the ids of a GET /themes listing are pairwise distinct, whatever
\* save and delete requests came before.
C29_ListedIdsDistinct ==
    (pc = "returned" /\ response.op = "get_themes") =>
        \A i, j \in 1..Len(response.themes) :
            i # j => response.themes[i].id # response.themes[j].id

(***************************************************************************)
(* SpecWechat: one call of a function of services/wechat_service.py, its   *)
(* outbound calls answered in every way.                                   *)
(***************************************************************************)
WechatCalls ==
    [op : {"get_access_token"}, token_http : HttpOutcomes]
    \cup [op : {"send_markdown_to_draft"}, token_http : HttpOutcomes,
          draft_http : HttpOutcomes, style : {"alibaba", "nope"}]
    \cup [op : {"send_content_to_draft"}, draft_http : HttpOutcomes,
          access_token : {"", "tok"}]

InitWechat ==
    /\ pc = "start"
    /\ call \in WechatCalls
    /\ outcome = NoResult
    /\ md = {} /\ styled = NoResult
    /\ THEMES = <<>> /\ CUSTOM_STYLES = <<>> /\ response = NoResponse /\ saved = <<>>
    /\ styles_module = NoResult
    /\ StyleUnused /\ GridUnused /\ TitleUnused /\ PromptsUnused

GetAccessToken ==
    /\ pc = "start" /\ call.op = "get_access_token"
    /\ outcome' = [result |-> get_access_token(call.token_http),
                   sent |-> <<[url |-> "cgi-bin/token"]>>]
    /\ pc' = "done"
    /\ UNCHANGED <<call, md, styled, serverVars, styleVars, gridVars, titleVars, promptVars>>

SendMarkdownToDraft ==
    /\ pc = "start" /\ call.op = "send_markdown_to_draft"
    /\ outcome' = send_markdown_to_draft(call.token_http, call.draft_http,
                                         <<MD_H1, MD_TEXT>>, call.style, STYLES)
    /\ pc' = "done"
    /\ UNCHANGED <<call, md, styled, serverVars, styleVars, gridVars, titleVars, promptVars>>

SendContentToDraft ==
    /\ pc = "start" /\ call.op = "send_content_to_draft"
    /\ outcome' = send_content_to_draft(call.draft_http, call.access_token, "T", "<p>hi</p>")
    /\ pc' = "done"
    /\ UNCHANGED <<call, md, styled, serverVars, styleVars, gridVars, titleVars, promptVars>>

NextWechat == GetAccessToken \/ SendMarkdownToDraft \/ SendContentToDraft

SpecWechat == InitWechat /\ [][NextWechat]_vars

(***************************************************************************)
(* Claims about the WeChat service.                                        *)
(***************************************************************************)
\* the outbound calls of the finished call that were answered, in order
Answers ==
    CASE call.op = "get_access_token" -> <<call.token_http>>
      [] call.op = "send_markdown_to_draft" ->
            IF Len(outcome.sent) = 2 THEN <<call.token_http, call.draft_http>>
            ELSE <<call.token_http>>
      [] call.op = "send_content_to_draft" ->
            IF Len(outcome.sent) = 1 THEN <<call.draft_http>> ELSE <<>>

\* the last answer is the one that decided the call
LastAnswer == Answers[Len(Answers)]

\* C18: when a WeChat response carries a non-zero errcode, the error given to
\* the caller carries the mapped message for the codes 40001, 40002, 40013 and
\* 40164, and the response's errmsg for every other code.
C18_ErrcodeMessageMapped ==
    (pc = "done" /\ Answers # <<>> /\ LastAnswer.is_json /\ HasErrcode(LastAnswer.json)
        /\ "errmsg" \in DOMAIN LastAnswer.json) =>
        LET errcode == LastAnswer.json.errcode
            known == [code \in {40013, 40001, 40002, 40164} |->
                         CASE code = 40013 -> "invalid AppID, check the AppID of the account"
                           [] code = 40001 -> "AppSecret error, check the AppSecret of the account"
                           [] code = 40002 ->
                                 "check the account's permissions, the draft box must be enabled"
                           [] code = 40164 ->
                                 "IP address not in the whitelist, add IP 101.246.231.55"]
        IN  /\ outcome.result.raised
            /\ outcome.result.exception = "WeChatError"
            /\ outcome.result.error_code = errcode
            /\ outcome.result.error_msg =
                  IF errcode \in DOMAIN known THEN known[errcode] ELSE LastAnswer.json.errmsg

\* C20: when an outbound call times out or is answered with a status outside
\* 200..299, the caller receives an error.
C20_FailedCallIsAnError ==
    (pc = "done" /\ \E i \in 1..Len(Answers) :
                        Answers[i].kind = "timeout" \/ Answers[i].status \notin 200..299)
        => outcome.result.raised

\* the requests of the finished call that went to the given endpoint
SentTo(url) == {i \in 1..Len(outcome.sent) : outcome.sent[i].url = url}

\* C22: in one call of send_markdown_to_draft the token request is issued
\* first and once; the draft-add request is issued at most once, after it,
\* only when the token request returned an access token, and carries that
\* token; a failed token exchange ends the call with an error and no
\* draft-add request.
C22_TokenThenDraftOnce ==
    (pc = "done" /\ call.op = "send_markdown_to_draft") =>
        /\ SentTo("cgi-bin/token") = {1}
        /\ SentTo("cgi-bin/draft/add") \subseteq {2}
        /\ Len(outcome.sent) <= 2
        /\ SentTo("cgi-bin/draft/add") # {} =>
              /\ ~get_access_token(call.token_http).raised
              /\ outcome.sent[2].access_token = get_access_token(call.token_http).value
        /\ get_access_token(call.token_http).raised =>
              outcome.result.raised /\ SentTo("cgi-bin/draft/add") = {}

C22_Witness ==
    /\ pc = "done" /\ call.op = "send_markdown_to_draft"
    /\ SentTo("cgi-bin/draft/add") = {2}
    /\ ~outcome.result.raised

(***************************************************************************)
(* services/ai_service.py: the four functions read one message of the      *)
(* completion.  A message is its content field (None or a string) and,     *)
(* when the attribute exists, its reasoning_content field.                 *)
(***************************************************************************)
None == [none |-> TRUE]

Str(s) == [none |-> FALSE, text |-> s]

\* Python's truth value of None or a string
Truthy(v) == ~v.none /\ v.text # <<>>

\* a TLA+ string cannot hold the grave accent: "~" stands for it
GRAVE == "~"

FENCE == <<GRAVE, GRAVE, GRAVE>>

FENCE_MARKDOWN == FENCE \o <<"m", "a", "r", "k", "d", "o", "w", "n">>

MessageContents ==
    {None, Str(<<>>), Str(<<" ">>), Str(<<"h", "i">>), Str(<<"h", "i", "\n">>),
     Str(FENCE_MARKDOWN \o <<"\n", "h", "i", "\n">> \o FENCE)}

ReasoningContents ==
    {None, Str(<<>>), Str(<<"w", "h", "y">>), Str(<<" ", "w", "h", "y">>),
     Str(FENCE \o <<"w", "h", "y">> \o FENCE)}

Messages ==
    [content : MessageContents, has_reasoning : {FALSE}]
    \cup [content : MessageContents, has_reasoning : {TRUE},
          reasoning_content : ReasoningContents]

Returned(v) == [raised |-> FALSE, value |-> v]

Raised(e) == [raised |-> TRUE, exception |-> e]

\* x = message.content, replaced by message.reasoning_content when x is
\* falsy and the message has that attribute
ContentOrReasoning(message) ==
    IF ~Truthy(message.content) /\ message.has_reasoning
    THEN message.reasoning_content
    ELSE message.content

ai_assist(message) ==
    LET ai_response == ContentOrReasoning(message)
    IN  IF ~Truthy(ai_response) THEN Raised("ValueError")
        ELSE Returned(ai_response.text)

\* the clean-up of generate_markdown: strip, then drop a leading fence with
\* or without its language tag, then a trailing fence
CleanFences(text) ==
    LET s0 == Strip(text)
        s1 == IF StartsWith(s0, FENCE_MARKDOWN)
              THEN Strip(SubSeq(s0, Len(FENCE_MARKDOWN) + 1, Len(s0))) ELSE s0
        s2 == IF StartsWith(s1, FENCE)
              THEN Strip(SubSeq(s1, Len(FENCE) + 1, Len(s1))) ELSE s1
    IN  IF EndsWith(s2, FENCE)
        THEN Strip(SubSeq(s2, 1, Len(s2) - Len(FENCE))) ELSE s2

generate_markdown(message) ==
    LET generated == ContentOrReasoning(message)
    IN  IF ~Truthy(generated) THEN Raised("ValueError")
        ELSE Returned(CleanFences(generated.text))

\* message.content.strip() comes before the fallback, and the fallback
\* strips too: None has no strip
text_to_markdown(message) ==
    IF message.content.none THEN Raised("AttributeError")
    ELSE LET converted == Strip(message.content.text)
         IN  IF converted = <<>> /\ message.has_reasoning
             THEN IF message.reasoning_content.none THEN Raised("AttributeError")
                  ELSE Returned(Strip(message.reasoning_content.text))
             ELSE Returned(converted)

format_markdown_to_html(message) ==
    LET html_content == ContentOrReasoning(message)
    IN  IF ~Truthy(html_content) THEN Raised("ValueError")
        ELSE Returned(html_content.text)

(***************************************************************************)
(* SpecAI: one call of a function of services/ai_service.py, the model's   *)
(* message being any of Messages.                                          *)
(***************************************************************************)
AIFunctions == {"ai_assist", "generate_markdown", "text_to_markdown", "format_markdown_to_html"}

InitAI ==
    /\ pc = "start"
    /\ call \in [op : AIFunctions, message : Messages]
    /\ outcome = NoResult
    /\ md = {} /\ styled = NoResult
    /\ THEMES = <<>> /\ CUSTOM_STYLES = <<>> /\ response = NoResponse /\ saved = <<>>
    /\ styles_module = NoResult
    /\ StyleUnused /\ GridUnused /\ TitleUnused /\ PromptsUnused

AiAssist ==
    /\ pc = "start" /\ call.op = "ai_assist"
    /\ outcome' = ai_assist(call.message)
    /\ pc' = "done"
    /\ UNCHANGED <<call, md, styled, serverVars, styleVars, gridVars, titleVars, promptVars>>

GenerateMarkdown ==
    /\ pc = "start" /\ call.op = "generate_markdown"
    /\ outcome' = generate_markdown(call.message)
    /\ pc' = "done"
    /\ UNCHANGED <<call, md, styled, serverVars, styleVars, gridVars, titleVars, promptVars>>

TextToMarkdown ==
    /\ pc = "start" /\ call.op = "text_to_markdown"
    /\ outcome' = text_to_markdown(call.message)
    /\ pc' = "done"
    /\ UNCHANGED <<call, md, styled, serverVars, styleVars, gridVars, titleVars, promptVars>>

FormatMarkdownToHtml ==
    /\ pc = "start" /\ call.op = "format_markdown_to_html"
    /\ outcome' = format_markdown_to_html(call.message)
    /\ pc' = "done"
    /\ UNCHANGED <<call, md, styled, serverVars, styleVars, gridVars, titleVars, promptVars>>

NextAI == AiAssist \/ GenerateMarkdown \/ TextToMarkdown \/ FormatMarkdownToHtml

SpecAI == InitAI /\ [][NextAI]_vars

\* the message of a finished call has an empty primary content (None or '')
\* and a reasoning_content that no clean-up would change
EmptyContentPlainReasoning ==
    /\ pc = "done"
    /\ ~Truthy(call.message.content)
    /\ call.message.has_reasoning
    /\ Truthy(call.message.reasoning_content)
    /\ CleanFences(call.message.reasoning_content.text) = call.message.reasoning_content.text

\* C19: whenever the message's primary content is empty, as an empty
\* string or as None, each of the four functions returns the message's
\* reasoning_content and does not fail.
C19_EmptyContentFallsBack ==
    EmptyContentPlainReasoning =>
        outcome = Returned(call.message.reasoning_content.text)

(***************************************************************************)
(* utils/markdown_utils.py, preprocess_markdown: four re.sub calls with    *)
(* re.MULTILINE.  A pattern is a sequence of items matched left to right   *)
(* with the backtracking order of Python's re: a greedy repetition tries   *)
(* the longest run first, a lazy one the shortest, and the first complete  *)
(* match wins.                                                             *)
(***************************************************************************)
DigitChars == {"0", "1", "2", "3", "4", "5", "6", "7", "8", "9"}

\* the character classes of the four patterns: \s, [^:\n] and .
ClassHas(class, c) ==
    CASE class = "space" -> c \in Whitespace
      [] class = "not_colon_or_newline" -> c \notin {":", "\n"}
      [] class = "dot" -> c # "\n"

\* the number of consecutive characters of s from position i that are in class
RECURSIVE ClassRun(_, _, _)
ClassRun(class, s, i) ==
    IF i <= Len(s) /\ ClassHas(class, s[i]) THEN 1 + ClassRun(class, s, i + 1) ELSE 0

RECURSIVE DigitRun(_, _)
DigitRun(s, i) ==
    IF i <= Len(s) /\ s[i] \in DigitChars THEN 1 + DigitRun(s, i + 1) ELSE 0

\* (?:\d+\.|\-|\*) at position i: the position after it, 0 when it does not
\* match.  \d+ can only end where the digits end, so there is one way at most.
MarkerEnd(s, i) ==
    LET d == DigitRun(s, i)
    IN  IF d > 0 /\ i + d <= Len(s) /\ s[i + d] = "."  THEN i + d + 1
        ELSE IF i <= Len(s) /\ s[i] \in {"-", "*"} THEN i + 1
        ELSE 0

NoMatch == [ok |-> FALSE]

Bol == [t |-> "bol"]

Eol == [t |-> "eol"]

Group == [t |-> "group"]

Marker == [t |-> "marker"]

Lit(c) == [t |-> "lit", c |-> c]

Star(class) == [t |-> "rep", class |-> class, min |-> 0, lazy |-> FALSE]

Plus(class) == [t |-> "rep", class |-> class, min |-> 1, lazy |-> FALSE]

LazyPlus(class) == [t |-> "rep", class |-> class, min |-> 1, lazy |-> TRUE]

\* Match(pat, k, s, i, caps): items k.. of pat against s from position i;
\* caps collects the positions where a group opens or closes
RECURSIVE Match(_, _, _, _, _)
RECURSIVE MatchRep(_, _, _, _, _, _, _)
Match(pat, k, s, i, caps) ==
    IF k > Len(pat) THEN [ok |-> TRUE, end |-> i, caps |-> caps]
    ELSE LET item == pat[k]
         IN  CASE item.t = "bol" ->
                    IF i = 1 \/ s[i - 1] = "\n"
                    THEN Match(pat, k + 1, s, i, caps) ELSE NoMatch
               [] item.t = "eol" ->
                    IF i = Len(s) + 1 \/ s[i] = "\n"
                    THEN Match(pat, k + 1, s, i, caps) ELSE NoMatch
               [] item.t = "group" -> Match(pat, k + 1, s, i, Append(caps, i))
               [] item.t = "lit" ->
                    IF i <= Len(s) /\ s[i] = item.c
                    THEN Match(pat, k + 1, s, i + 1, caps) ELSE NoMatch
               [] item.t = "marker" ->
                    IF MarkerEnd(s, i) # 0
                    THEN Match(pat, k + 1, s, MarkerEnd(s, i), caps) ELSE NoMatch
               [] item.t = "rep" ->
                    LET run == ClassRun(item.class, s, i)
                    IN  MatchRep(pat, k, s, i, caps,
                                 IF item.lazy THEN item.min ELSE run, run)

\* the repetition pat[k] taking n characters, then fewer (greedy) or more (lazy)
MatchRep(pat, k, s, i, caps, n, run) ==
    IF n < pat[k].min \/ n > run THEN NoMatch
    ELSE LET rest == Match(pat, k + 1, s, i + n, caps)
         IN  IF rest.ok THEN rest
             ELSE MatchRep(pat, k, s, i, caps, IF pat[k].lazy THEN n + 1 ELSE n - 1, run)

\* re.sub(pat, r'\1' + sep + r'\2', s): the leftmost matches, not overlapping.
\* Every pattern holds a list marker, so no match is empty.
RECURSIVE re_sub(_, _, _, _)
re_sub(pat, sep, s, i) ==
    IF i > Len(s) THEN <<>>
    ELSE LET m == Match(pat, 1, s, i, <<>>)
         IN  IF m.ok
             THEN SubSeq(s, m.caps[1], m.caps[2] - 1) \o sep
                    \o SubSeq(s, m.caps[3], m.caps[4] - 1) \o re_sub(pat, sep, s, m.end)
             ELSE <<s[i]>> \o re_sub(pat, sep, s, i + 1)

\* ^(\s*(?:\d+\.|\-|\*)\s+[^:\n]+)\n\s*:\s*(.+?)$
COLON_ON_NEXT_LINE ==
    <<Bol, Group, Star("space"), Marker, Plus("space"), Plus("not_colon_or_newline"), Group,
      Lit("\n"), Star("space"), Lit(":"), Star("space"), Group, LazyPlus("dot"), Group, Eol>>

\* ^(\s*(?:\d+\.|\-|\*)\s+.+?:)\s*\n\s+(.+?)$
VALUE_ON_NEXT_LINE ==
    <<Bol, Group, Star("space"), Marker, Plus("space"), LazyPlus("dot"), Lit(":"), Group,
      Star("space"), Lit("\n"), Plus("space"), Group, LazyPlus("dot"), Group, Eol>>

\* ^(\s*(?:\d+\.|\-|\*)\s+[^:\n]+)\n:\s*(.+?)$
COLON_STARTS_NEXT_LINE ==
    <<Bol, Group, Star("space"), Marker, Plus("space"), Plus("not_colon_or_newline"), Group,
      Lit("\n"), Lit(":"), Star("space"), Group, LazyPlus("dot"), Group, Eol>>

\* ^(\s*(?:\d+\.|\-|\*)\s+.+?)\n\n\s+(.+?)$
INDENTED_AFTER_BLANK_LINE ==
    <<Bol, Group, Star("space"), Marker, Plus("space"), LazyPlus("dot"), Group,
      Lit("\n"), Lit("\n"), Plus("space"), Group, LazyPlus("dot"), Group, Eol>>

preprocess_markdown(content) ==
    LET c1 == re_sub(COLON_ON_NEXT_LINE, <<":", " ">>, content, 1)
        c2 == re_sub(VALUE_ON_NEXT_LINE, <<" ">>, c1, 1)
        c3 == re_sub(COLON_STARTS_NEXT_LINE, <<":", " ">>, c2, 1)
    IN  re_sub(INDENTED_AFTER_BLANK_LINE, <<" ">>, c3, 1)

(***************************************************************************)
(* SpecPreprocess: preprocess_markdown applied to a text, then to its own  *)
(* result.  Texts are built from list items, continuation lines and        *)
(* paragraph breaks.                                                       *)
(***************************************************************************)
MaxParts == 3

TextParts ==
    {<<"-", " ", "a">>, <<"1", ".", " ", "k", ":">>, <<"\n", "\n", " ", "b">>,
     <<"\n", ":", " ", "c">>, <<"\n", " ", "v">>, <<"\n">>}

PreprocessInputs == {Join(<<>>, parts) : parts \in SeqsUpTo(TextParts, MaxParts)}

InitPreprocess ==
    /\ pc = "start"
    /\ call \in [op : {"preprocess_markdown"}, content : PreprocessInputs]
    /\ outcome = NoResult
    /\ md = {} /\ styled = NoResult
    /\ THEMES = <<>> /\ CUSTOM_STYLES = <<>> /\ response = NoResponse /\ saved = <<>>
    /\ styles_module = NoResult
    /\ StyleUnused /\ GridUnused /\ TitleUnused /\ PromptsUnused

\* result1 = preprocess_markdown(markdown)
Preprocess ==
    /\ pc = "start"
    /\ outcome' = [value |-> preprocess_markdown(call.content)]
    /\ pc' = "once"
    /\ UNCHANGED <<call, md, styled, serverVars, styleVars, gridVars, titleVars, promptVars>>

\* result2 = preprocess_markdown(result1)
PreprocessAgain ==
    /\ pc = "once"
    /\ outcome' = [value |-> preprocess_markdown(outcome.value), previous |-> outcome.value]
    /\ pc' = "twice"
    /\ UNCHANGED <<call, md, styled, serverVars, styleVars, gridVars, titleVars, promptVars>>

NextPreprocess == Preprocess \/ PreprocessAgain

SpecPreprocess == InitPreprocess /\ [][NextPreprocess]_vars

\* C17: preprocess_markdown is idempotent: applied to its own result it
\* returns that result unchanged.
C17_PreprocessIdempotent ==
    pc = "twice" => outcome.value = outcome.previous

(***************************************************************************)
(* prompts/__init__.py: load_prompt with its module-level cache, and the   *)
(* prompt files changing underneath it.  SpecPrompts interleaves loads,    *)
(* cache clears and file changes.                                          *)
(***************************************************************************)
PromptNames == {"text_to_markdown", "css_style_extraction"}

PromptTexts == {"v1", "v2"}

\* prompt_path.exists() for PROMPTS_DIR / f"{prompt_name}.txt"
Exists(files, prompt_name) == prompt_name \in DOMAIN files

\* load_prompt: what it returns or raises, and the cache afterwards
load_prompt(cache, files, prompt_name) ==
    IF prompt_name \in DOMAIN cache
    THEN [result |-> Returned(cache[prompt_name]), cache |-> cache]
    ELSE IF ~Exists(files, prompt_name)
    THEN [result |-> Raised("FileNotFoundError"), cache |-> cache]
    ELSE [result |-> Returned(files[prompt_name]),
          cache |-> [n \in DOMAIN cache \cup {prompt_name} |->
                        IF n = prompt_name THEN files[prompt_name] ELSE cache[n]]]

InitPrompts ==
    /\ pc = "start"
    /\ call = NoCall
    /\ outcome = NoResult
    /\ _PROMPT_CACHE = <<>>
    /\ \E present \in SUBSET PromptNames : prompt_files \in [present -> PromptTexts]
    /\ md = {} /\ styled = NoResult
    /\ THEMES = <<>> /\ CUSTOM_STYLES = <<>> /\ response = NoResponse /\ saved = <<>>
    /\ styles_module = NoResult
    /\ StyleUnused /\ GridUnused /\ TitleUnused

LoadPrompt ==
    \E prompt_name \in PromptNames :
        LET r == load_prompt(_PROMPT_CACHE, prompt_files, prompt_name)
        IN  /\ call' = [op |-> "load_prompt", prompt_name |-> prompt_name]
            /\ outcome' = r.result
            /\ _PROMPT_CACHE' = r.cache
            /\ pc' = "called"
            /\ UNCHANGED <<prompt_files, md, styled, serverVars, styleVars, gridVars, titleVars>>

\* _PROMPT_CACHE.clear()
ClearCache ==
    /\ call' = [op |-> "clear_cache"]
    /\ outcome' = NoResult
    /\ _PROMPT_CACHE' = <<>>
    /\ pc' = "called"
    /\ UNCHANGED <<prompt_files, md, styled, serverVars, styleVars, gridVars, titleVars>>

\* somebody edits or creates a prompt file
WritePromptFile ==
    \E prompt_name \in PromptNames, text \in PromptTexts :
        /\ call' = [op |-> "write_file", prompt_name |-> prompt_name]
        /\ outcome' = NoResult
        /\ prompt_files' = [n \in DOMAIN prompt_files \cup {prompt_name} |->
                               IF n = prompt_name THEN text ELSE prompt_files[n]]
        /\ pc' = "changed"
        /\ UNCHANGED <<_PROMPT_CACHE, md, styled, serverVars, styleVars, gridVars, titleVars>>

\* somebody removes a prompt file
DeletePromptFile ==
    \E prompt_name \in DOMAIN prompt_files :
        /\ call' = [op |-> "delete_file", prompt_name |-> prompt_name]
        /\ outcome' = NoResult
        /\ prompt_files' = [n \in DOMAIN prompt_files \ {prompt_name} |-> prompt_files[n]]
        /\ pc' = "changed"
        /\ UNCHANGED <<_PROMPT_CACHE, md, styled, serverVars, styleVars, gridVars, titleVars>>

NextPrompts == LoadPrompt \/ ClearCache \/ WritePromptFile \/ DeletePromptFile

SpecPrompts == InitPrompts /\ [][NextPrompts]_vars

\* C21: whatever loads, cache clears and file changes came before,
\* load_prompt(name) raises FileNotFoundError when name.txt does not exist
\* at the time of the call and otherwise returns the file's content.
C21_LoadFollowsTheFile ==
    call.op = "load_prompt" =>
        outcome = IF Exists(prompt_files, call.prompt_name)
                  THEN Returned(prompt_files[call.prompt_name])
                  ELSE Raised("FileNotFoundError")

(***************************************************************************)
(* SpecMerge: the styling step applied to documents whose paragraphs       *)
(* already carry an inline style, written in three ways.                   *)
(***************************************************************************)
StyledDocs ==
    {JoinPieces(b) : b \in SeqsUpTo({STYLED_P, STYLED_P_SPACED, STYLED_P_CLOSED}, MaxElems)}
        \ {<<>>}

\* style maps without the two container keys
ElementStyleMaps == {m \in StyleMaps : \A i \in 1..Len(m) : m[i][1] \notin ReservedSelectors}

InitMerge ==
    /\ pc = "start"
    /\ md = {}
    /\ \E h \in StyledDocs, s \in ElementStyleMaps, m \in Modes, p \in Platforms :
          call = [op |-> "styling", html_content |-> h, styles |-> s, mode |-> m, platform |-> p]
    /\ styled = NoResult
    /\ StyleUnused /\ GridUnused /\ TitleUnused /\ ServerUnused /\ PromptsUnused

SpecMerge == InitMerge /\ [][NextStyling]_vars

\* the elements of the document before the styling step
FormerElements == BeautifulSoup(call.html_content)

\* the adjusted declarations of the rules whose selector finds the element,
\* in the order of the style map
RECURSIVE DeclarationsFor(_, _)
DeclarationsFor(element, i) ==
    IF i > Len(call.styles) THEN <<>>
    ELSE (IF call.styles[i][1] \notin ReservedSelectors /\ Selects(call.styles[i][1], element)
          THEN <<Strip(AdjustStyle(call.styles[i][2], call.mode, call.platform))>>
          ELSE <<>>) \o DeclarationsFor(element, i + 1)

\* the ';' the claim has added: only after a style that does not end with one
Boundary(former) == IF former # <<>> /\ ~EndsWith(former, <<";">>) THEN <<";">> ELSE <<>>

WithoutLeadingWhitespace(s) ==
    IF \A i \in 1..Len(s) : s[i] \in Whitespace THEN <<>>
    ELSE SubSeq(s, CHOOSE i \in 1..Len(s) :
                       s[i] \notin Whitespace /\ \A k \in 1..(i - 1) : s[k] \in Whitespace,
                Len(s))

\* the former style kept as it is, the boundary, then each declaration
RECURSIVE Accumulated(_, _)
Accumulated(former, decls) ==
    IF decls = <<>> THEN former
    ELSE Accumulated(former \o Boundary(former) \o <<" ">> \o Head(decls), Tail(decls))

\* C23 as stated: an element that had an inline style and is found by
\* selectors of the style map keeps its former style text unchanged as a
\* prefix; a ';' follows only when the former style did not end with one;
\* the declarations of the selectors follow in style-map order.
C23_FormerStyleKeptAsPrefix ==
    (pc = "styled" /\ ~styled.raised) =>
        \A k \in 1..Len(FormerElements) :
            (FormerElements[k].has_style /\ DeclarationsFor(FormerElements[k], 1) # <<>>) =>
                styled.contents[k].style =
                    Accumulated(FormerElements[k].style, DeclarationsFor(FormerElements[k], 1))

\* C23 as amended: the former style text is kept less its leading
\* whitespace; the rest as stated.
C23_FormerStyleKeptLessLeadingWhitespace ==
    (pc = "styled" /\ ~styled.raised) =>
        \A k \in 1..Len(FormerElements) :
            (FormerElements[k].has_style /\ DeclarationsFor(FormerElements[k], 1) # <<>>) =>
                styled.contents[k].style =
                    WithoutLeadingWhitespace(
                        Accumulated(FormerElements[k].style,
                                    DeclarationsFor(FormerElements[k], 1)))

\* C23 witness: a paragraph whose style began with a blank and did not end
\* with ';' was found by two selectors.
C23_Witness ==
    /\ pc = "styled" /\ ~styled.raised
    /\ \E k \in 1..Len(FormerElements) :
          /\ FormerElements[k].style = <<" ", "a", ":", "b">>
          /\ Len(DeclarationsFor(FormerElements[k], 1)) = 2
          /\ DeclarationsFor(FormerElements[k], 1)[1] # DeclarationsFor(FormerElements[k], 1)[2]
          /\ styled.contents[k].style # FormerElements[k].style

(***************************************************************************)
(* api_server.py, group_consecutive_images: the Flask server's image grid. *)
(* The document is the sequence of its nodes in document order, "img" for  *)
(* an image and another tag for any other content.                         *)
(***************************************************************************)
MaxNodes == 4

NodeTags == {"img", "p", "h1"}

Documents == SeqsUpTo(NodeTags, MaxNodes)

\* soup.find_all('img'): the positions of the images
FindAllImg(soup) == {i \in 1..Len(soup) : soup[i] = "img"}

\* The loop over the images appends every image to current_group, whatever
\* lies between it and the one before; two or more make the one group.
\* Each image is then moved into a wrapper inside the new grid container, so
\* group[0].parent is that wrapper, and first_img_parent.insert_after(
\* grid_container) asks BeautifulSoup to insert the container into itself:
\* ValueError.  grid lists the images that were moved into the container.
group_consecutive_images(soup) ==
    LET images == FindAllImg(soup)
    IN  IF Cardinality(images) < 2
        THEN [raised |-> FALSE, value |-> soup, grid |-> {}]
        ELSE [raised |-> TRUE, exception |-> "ValueError", grid |-> images]

InitImages ==
    /\ pc = "start"
    /\ call \in [op : {"group_consecutive_images"}, soup : Documents]
    /\ outcome = NoResult
    /\ md = {} /\ styled = NoResult
    /\ THEMES = <<>> /\ CUSTOM_STYLES = <<>> /\ response = NoResponse /\ saved = <<>>
    /\ styles_module = NoResult
    /\ StyleUnused /\ GridUnused /\ TitleUnused /\ PromptsUnused

GroupConsecutiveImages ==
    /\ pc = "start"
    /\ outcome' = group_consecutive_images(call.soup)
    /\ pc' = "done"
    /\ UNCHANGED <<call, md, styled, serverVars, styleVars, gridVars, titleVars, promptVars>>

NextImages == GroupConsecutiveImages

SpecImages == InitImages /\ [][NextImages]_vars

\* whether the document has two images next to each other
HasConsecutiveImages(soup) ==
    \E i \in 1..(Len(soup) - 1) : soup[i] = "img" /\ soup[i + 1] = "img"

\* C24: only images that are consecutive in the document share a grid
\* container, and a document with fewer than two consecutive images is
\* returned without a grid.
C24_OnlyConsecutiveImagesGrouped ==
    pc = "done" =>
        /\ \A i, j \in outcome.grid :
              i < j => \A k \in i..j : call.soup[k] = "img"
        /\ ~HasConsecutiveImages(call.soup) =>
              ~outcome.raised /\ outcome.value = call.soup /\ outcome.grid = {}

(***************************************************************************)
(* SpecConcurrent: requests on one custom-style key in flight together.    *)
(* The handlers of api.py are coroutines on uvicorn's single event loop;   *)
(* the loop switches to another request only where a handler awaits.       *)
(* render_markdown reads CUSTOM_STYLES three times: the membership test,   *)
(* the lookup for theme_config and the lookup for the renderer call; the   *)
(* first two are in one step here, the third in a second step.             *)
(***************************************************************************)
RequestIds == {"r1", "r2", "r3"}

SharedKey == "mine"

ConcurrentRequests ==
    [op : {"render"}, markdown_text : RequestDocs, theme : {SharedKey},
     mode : {"light-mode"}, platform : {"wechat"}]
    \cup [op : {"save_custom_style"}, style_name : {SharedKey}, styles : SavedStyleMaps]
    \cup [op : {"delete_custom_style"}, style_name : {SharedKey}]

\* C30 mutant: an await between any two steps of a handler
HandlerYields_between_steps(position) == TRUE

\* whether the event loop may run another request when a handler has come
\* to the given position: render_markdown, save_custom_style and
\* delete_custom_style hold no await
HandlerYields(position) == FALSE

InitConcurrent ==
    /\ pc = "idle"
    /\ call \in [RequestIds -> [request : ConcurrentRequests, position : {"pending"}]]
    /\ response = [i \in RequestIds |-> NoResponse]
    /\ THEMES = STYLES
    /\ \/ CUSTOM_STYLES = <<>> /\ saved = [k \in {SharedKey} |-> {}]
       \/ \E s \in SavedStyleMaps :
             /\ CUSTOM_STYLES = save_custom_style(<<>>, SharedKey, s)
             /\ saved = [k \in {SharedKey} |-> {s}]
    /\ md = {} /\ styled = NoResult
    /\ styles_module = [raised |-> FALSE, STYLES |-> STYLES]
    /\ outcome = NoResult
    /\ StyleUnused /\ GridUnused /\ TitleUnused /\ PromptsUnused

\* the loop runs request i: nothing else is running, or i itself is
Runs(i) == pc = "idle" \/ pc = i

\* lines 985-1003 of render_markdown: the key is found in CUSTOM_STYLES and
\* theme_config is built from CUSTOM_STYLES[request.theme]
RenderFindsCustomStyle(i) ==
    /\ Runs(i)
    /\ call[i].position = "pending" /\ call[i].request.op = "render"
    /\ ~HasKey(THEMES, call[i].request.theme)
    /\ call[i].request.theme \in DOMAIN CUSTOM_STYLES
    /\ call' = [call EXCEPT ![i].position = "found"]
    /\ pc' = IF HandlerYields("found") THEN "idle" ELSE i
    /\ UNCHANGED <<response, md, THEMES, CUSTOM_STYLES, saved, styled, styles_module,
                   styleVars, gridVars, titleVars, outcome, promptVars>>

\* lines 1018-1043: the mode is validated and the renderer is called with
\* CUSTOM_STYLES[request.theme]; a KeyError is answered 500 by 'except Exception'
RenderWithFoundStyle(i) ==
    /\ Runs(i)
    /\ call[i].position = "found"
    /\ LET request == call[i].request
       IN  IF request.theme \in DOMAIN CUSTOM_STYLES
           THEN LET r == api_render_with_custom_styles(md, request.markdown_text,
                             request.theme, request.mode, request.platform,
                             CUSTOM_STYLES[request.theme])
                IN  /\ response' = [response EXCEPT ![i] =
                           IF r.result.raised THEN RenderError(request, request.theme)
                           ELSE [op |-> "render", status |-> 200, success |-> TRUE,
                                 html |-> r.result, theme |-> request.theme,
                                 platform |-> request.platform]]
                    /\ md' = r.md
           ELSE /\ response' = [response EXCEPT ![i] = RenderError(request, request.theme)]
                /\ md' = md
    /\ call' = [call EXCEPT ![i].position = "done_found"]
    /\ pc' = "idle"
    /\ UNCHANGED <<THEMES, CUSTOM_STYLES, saved, styled, styles_module,
                   styleVars, gridVars, titleVars, outcome, promptVars>>

\* render_markdown for a key that is not in CUSTOM_STYLES: the fallback theme
RenderWithoutCustomStyle(i) ==
    /\ Runs(i)
    /\ call[i].position = "pending" /\ call[i].request.op = "render"
    /\ call[i].request.theme \notin DOMAIN CUSTOM_STYLES
    /\ LET r == render_markdown(THEMES, CUSTOM_STYLES, md, call[i].request)
       IN  /\ response' = [response EXCEPT ![i] = r.response]
           /\ md' = r.md
           /\ THEMES' = r.themes
    /\ call' = [call EXCEPT ![i].position = "done"]
    /\ pc' = "idle"
    /\ UNCHANGED <<CUSTOM_STYLES, saved, styled, styles_module,
                   styleVars, gridVars, titleVars, outcome, promptVars>>

SaveWhileOthersWait(i) ==
    /\ Runs(i)
    /\ call[i].position = "pending" /\ call[i].request.op = "save_custom_style"
    /\ CUSTOM_STYLES' = save_custom_style(CUSTOM_STYLES, call[i].request.style_name,
                                          call[i].request.styles)
    /\ saved' = [saved EXCEPT ![call[i].request.style_name] = @ \cup {call[i].request.styles}]
    /\ response' = [response EXCEPT ![i] =
                       [op |-> "save_custom_style", status |-> 200,
                        style_name |-> call[i].request.style_name]]
    /\ call' = [call EXCEPT ![i].position = "done"]
    /\ pc' = "idle"
    /\ UNCHANGED <<md, THEMES, styled, styles_module,
                   styleVars, gridVars, titleVars, outcome, promptVars>>

DeleteWhileOthersWait(i) ==
    /\ Runs(i)
    /\ call[i].position = "pending" /\ call[i].request.op = "delete_custom_style"
    /\ LET r == delete_custom_style(CUSTOM_STYLES, call[i].request.style_name)
       IN  /\ CUSTOM_STYLES' = r.custom
           /\ response' = [response EXCEPT ![i] = r.response]
    /\ call' = [call EXCEPT ![i].position = "done"]
    /\ pc' = "idle"
    /\ UNCHANGED <<md, THEMES, saved, styled, styles_module,
                   styleVars, gridVars, titleVars, outcome, promptVars>>

NextConcurrent ==
    \E i \in RequestIds :
        \/ RenderFindsCustomStyle(i)
        \/ RenderWithFoundStyle(i)
        \/ RenderWithoutCustomStyle(i)
        \/ SaveWhileOthersWait(i)
        \/ DeleteWhileOthersWait(i)

SpecConcurrent == InitConcurrent /\ [][NextConcurrent]_vars

\* C30: a render request that found its key in CUSTOM_STYLES is answered 200
\* with the document styled by a style map that was saved under that key,
\* whatever save and delete requests on the key are in flight with it.
C30_FoundKeyIsRendered ==
    \A i \in RequestIds :
        call[i].position = "done_found" =>
            /\ response[i].status = 200
            /\ \E s \in saved[call[i].request.theme] :
                  response[i].html = ApplyStyles(Convert({}, call[i].request.markdown_text),
                                                 s, call[i].request.mode,
                                                 call[i].request.platform)

\* C30 witness: a render that found the key has been answered, and a delete
\* of the key and a save under it have been answered too.
C30_Witness ==
    /\ \E i \in RequestIds : call[i].position = "done_found" /\ response[i].status = 200
    /\ \E i \in RequestIds :
          call[i].request.op = "delete_custom_style" /\ response[i].status = 200
    /\ \E i \in RequestIds :
          call[i].request.op = "save_custom_style" /\ call[i].position = "done"
====
